---------------------------- MODULE Spec2Model ----------------------------
(***************************************************************************)
(* Model of the QUIC based FTP client (package client_ftp / ftpq):         *)
(*   - the parallel transfer engine ServerConn.MultipleTransfer with its   *)
(*     workers (parallelTransfer, parallelStorTask, parallelRetrTask);     *)
(*   - the receive-stream rendezvous of the sub-connections                *)
(*     (cmdDataReceiveStreamFrom, getDataRetriveStream);                   *)
(*   - the wire sequence of one sub-connection for STOR / RETR with REST.  *)
(* Go strings are TLA+ strings; a Go error value is a record with the      *)
(* field nil (TRUE for the nil error) and the field msg (err.Error()).     *)
(***************************************************************************)
EXTENDS Integers, Sequences, FiniteSets, TLC

(***************************************************************************)
(* Bounds of the model.                                                    *)
(***************************************************************************)
MaxTasks == 2
MaxPar == 3
MaxSubs == 2
MaxCmds == 3
MaxOps == 4
MaxOffset == 3

(***************************************************************************)
(* Strings and errors.                                                     *)
(***************************************************************************)
NilErr == [nil |-> TRUE, msg |-> ""]
Err(m) == [nil |-> FALSE, msg |-> m]

\* strings.HasPrefix(s, prefix)
HasPrefix(s, prefix) ==
    /\ Len(s) >= Len(prefix)
    /\ SubSeq(s, 1, Len(prefix)) = prefix

\* strings.Contains(s, sub)
Contains(s, sub) ==
    \E i \in 1..(Len(s) - Len(sub) + 1) : SubSeq(s, i, i + Len(sub) - 1) = sub


(***************************************************************************)
(* Transfer tasks.                                                         *)
(***************************************************************************)
Retrieve == 1
Store == 2

LocalPaths == {"a", "b"}
RemotePaths == {"x"}
Absent == [exists |-> FALSE, data |-> ""]
File(d) == [exists |-> TRUE, data |-> d]
RemoteStates == {Absent, File("X")}

\* NewTransferTask(direction, localpath, remotepath)
NewTransferTask(direction, localpath, remotepath) ==
    [localpath |-> localpath, remotepath |-> remotepath,
     direction |-> direction, finished |-> FALSE]

\* TransferTask{finished: true}: the zero value of every other field
Sentinel == [localpath |-> "", remotepath |-> "", direction |-> 0, finished |-> TRUE]


\* Every task over the paths of the model; direction 3 is neither Store nor Retrieve.
Directions == {Retrieve, Store, 3}
TaskKinds ==
    {NewTransferTask(d, l, r) : d \in Directions, l \in LocalPaths, r \in RemotePaths}
\* The tasks of the lists passed to MultipleTransfer: a store of the local file
\* "a" and a retrieve into the local path "b" (absent at first, present once a
\* retrieve has run).
EngineTaskKinds ==
    {NewTransferTask(Store, "a", "x"), NewTransferTask(Retrieve, "b", "x")}
TaskLists == UNION {[1..n -> EngineTaskKinds] : n \in 0..MaxTasks}
\* nrParallel as requested by the caller (negative: no limit)
Requested == (-1)..MaxPar

(***************************************************************************)
(* The operating system and the server as seen by one task.                *)
(***************************************************************************)
\* os.Stat(path): the error it returns
osStat(lfs, path) == IF lfs[path].exists THEN "nil" ELSE "ENOENT"
\* os.IsExist(err): true for the errors that report an existing file
osIsExist(err) == err \in {"EEXIST", "ENOTEMPTY"}

\* What the environment does to one task: the server answers, the copy runs.
StorEnv == {"ok", "storErr"}
RetrEnv == {"ok", "createErr", "retrErr", "copyErr", "copyCloseErr", "closeErr"}
TaskEnv == StorEnv \cup RetrEnv
\* The answers of the environment explored while several workers run
EngineEnv == {"ok", "storErr", "retrErr"}

\* subC.Stor(task.remotepath, file), part_002 lines 494-517, as one call
StorCall(data, path, rfs, env) ==
    IF env = "storErr"
    THEN [err |-> Err("550 Could not create file."), rfs |-> rfs]
    ELSE [err |-> NilErr, rfs |-> [rfs EXCEPT ![path] = File(data)]]

\* parallelStorTask
parallelStorTask(task, lfs, rfs, env) ==
    IF ~lfs[task.localpath].exists
    THEN [err |-> Err("Error while opening the local file " \o task.localpath \o ". "
                      \o "open " \o task.localpath \o ": no such file or directory"),
          lfs |-> lfs, rfs |-> rfs, wire |-> <<>>]
    ELSE LET st == StorCall(lfs[task.localpath].data, task.remotepath, rfs, env) IN
         IF ~st.err.nil
         THEN [err |-> Err("Error while writing file " \o task.localpath
                           \o " to server. " \o st.err.msg),
               lfs |-> lfs, rfs |-> st.rfs, wire |-> <<"STOR">>]
         ELSE [err |-> NilErr, lfs |-> lfs, rfs |-> st.rfs, wire |-> <<"STOR">>]

\* parallelRetrTask
parallelRetrTask(task, lfs, rfs, env) ==
    IF osIsExist(osStat(lfs, task.localpath))
    THEN [err |-> Err("File with this name already exists in local folder."),
          lfs |-> lfs, rfs |-> rfs, wire |-> <<>>]
    ELSE IF env = "createErr"
    THEN [err |-> Err("Error while creating the local file. " \o "open "
                      \o task.localpath \o ": permission denied"),
          lfs |-> lfs, rfs |-> rfs, wire |-> <<>>]
    ELSE LET created == [lfs EXCEPT ![task.localpath] = File("")] IN  \* os.Create truncates
         IF env = "retrErr" \/ ~rfs[task.remotepath].exists
         THEN [err |-> Err("550 Failed to open file."),
               lfs |-> created, rfs |-> rfs, wire |-> <<"RETR">>]
         ELSE IF env \in {"copyErr", "copyCloseErr"}
         THEN [err |-> Err("Error while writing file to local file. " \o "short write"
                           \o (IF env = "copyCloseErr"
                               THEN " Error while closing reader from server. "
                                    \o "426 Failure reading network stream."
                               ELSE "")),
               lfs |-> created, rfs |-> rfs, wire |-> <<"RETR">>]
         ELSE LET copied == [lfs EXCEPT ![task.localpath] = File(rfs[task.remotepath].data)] IN
              IF env = "closeErr"
              THEN [err |-> Err(" Error while closing reader from server. "
                                \o "426 Failure reading network stream."),
                    lfs |-> copied, rfs |-> rfs, wire |-> <<"RETR">>]
              ELSE [err |-> NilErr, lfs |-> copied, rfs |-> rfs, wire |-> <<"RETR">>]

\* The dispatch on task.direction in the loops of MultipleTransfer and parallelTransfer
RunTask(task, lfs, rfs, env) ==
    IF task.direction = Store THEN parallelStorTask(task, lfs, rfs, env)
    ELSE IF task.direction = Retrieve THEN parallelRetrTask(task, lfs, rfs, env)
    ELSE [err |-> Err("Unknown direction for transfer."),
          lfs |-> lfs, rfs |-> rfs, wire |-> <<>>]

\* The environments that make a difference to a task (one per distinct outcome)
EnvOf(task) ==
    IF task.direction = Store THEN StorEnv
    ELSE IF task.direction = Retrieve THEN RetrEnv
    ELSE {"ok"}

(***************************************************************************)
(* State of the parallel transfer engine.                                  *)
(*   Worker 0 is the calling thread of MultipleTransfer (it works on the   *)
(*   default sub-connection); workers 1..nrParallel-1 are the goroutines   *)
(*   running parallelTransfer.                                             *)
(***************************************************************************)
VARIABLES
    tasks,                \* the tasks argument of MultipleTransfer
    nrParallel,           \* nrParallel after the clamp
    taskChannel,          \* buffered channel, capacity len(tasks)+nrParallel
    returnChannel,        \* buffered channel, capacity len(tasks)
    pc,                   \* position of every worker
    cur,                  \* the task a worker holds
    res,                  \* the result a worker is about to send
    ctlOpen,              \* the worker's control stream is open
    errorMessage,         \* the collector's aggregate
    normalReplay,         \* the collector's loop counter
    goRoutineResetReply,  \* the collector's reset counter
    mtResult,             \* what MultipleTransfer returned
    localFS,              \* local files
    remoteFS,             \* files on the server
    took,                 \* history: the queue items a worker dequeued (id, finished)
    setupEnv,             \* history: what the environment answered to a worker's setup
    execLog,              \* history: per queue item, the workers that executed it
    sent,                 \* history: the results a worker put on returnChannel
    retrSent              \* history: ids of the items for which RETR went out

inputVars == <<tasks, nrParallel>>
collVars == <<errorMessage, normalReplay, goRoutineResetReply, mtResult>>
fsVars == <<localFS, remoteFS, retrSent>>

engineVars ==
    <<tasks, nrParallel, taskChannel, returnChannel, pc, cur, res, ctlOpen,
      errorMessage, normalReplay, goRoutineResetReply, mtResult, localFS, remoteFS,
      took, setupEnv, execLog, sent, retrSent>>

(***************************************************************************)
(* State of one session with its sub-connections: the receive rendezvous.  *)
(***************************************************************************)
VARIABLES
    structAccessMutex,    \* 0: free, otherwise the sub-connection holding it
    dataRetriveStreams,   \* the map of accepted streams: records [key, sid]
    incoming,             \* streams the server opened, not yet accepted
    nextServerStream,     \* ID of the next unidirectional stream of the server
    nextClientStream,     \* ID of the next unidirectional stream of the client
    rpc,                  \* position of every sub-connection
    rkind,                \* the command a sub-connection runs
    streamID,             \* the ID a sub-connection parsed from the reply
    ctrl,                 \* replies on a control stream that are not read yet
    ret,                  \* what the data command returned
    cmdCount,             \* commands issued so far
    announced,            \* history: the ID the server put into its reply
    handed,               \* history: streams returned to commands
    accepted,             \* history: streams AcceptUniStream returned
    honest,               \* history: the server announced every stream it opened
    acceptFailed          \* history: AcceptUniStream returned an error

rdvVars ==
    <<structAccessMutex, dataRetriveStreams, incoming, nextServerStream,
      nextClientStream, rpc, rkind, streamID, ctrl, ret, cmdCount, announced,
      handed, accepted, honest, acceptFailed>>

(***************************************************************************)
(* State of one sub-connection and its server: the commands and replies on *)
(* the control stream, the data streams, the files of the server.          *)
(***************************************************************************)
VARIABLES
    script,               \* the operations the caller runs, in order (never changes)
    program,              \* the operations the caller has still to run
    cpc,                  \* position of the caller inside the running operation
    op,                   \* the running operation
    opIndex,              \* number of operations started
    want,                 \* the stream ID parsed from the 125/150 reply
    cret,                 \* what the running operation returns
    results,              \* history: what the operations returned
    controlOut,           \* command lines the server has not read yet
    controlIn,            \* replies the client has not read yet
    sendStream,           \* the send stream of the running STOR
    recvStreams,          \* the streams the server opened: [sid, data, filed]
    nextSendStream,       \* ID of the next send stream of the client
    nextRecvStream,       \* ID of the next stream of the server
    srvFiles,             \* the files of the server
    srvRest,              \* the offset of the last REST
    srvPc,                \* what the server is doing
    cmdLog,               \* history: the command lines sent
    completed,            \* history: the transfers that returned without error
    read226               \* history: the transfers whose 226 reply was read

subVars ==
    <<script, program, cpc, op, opIndex, want, cret, results, controlOut, controlIn,
      sendStream, recvStreams, nextSendStream, nextRecvStream, srvFiles, srvRest,
      srvPc, cmdLog, completed, read226>>

(***************************************************************************)
(* State of the facade and its default sub-connection as the single        *)
(* commands see it: Login, Feat, CurrentDir, Rename, NoOp, List, Quit.     *)
(***************************************************************************)
VARIABLES
    quicSession,          \* "open" or "closed": ServerConn.quicSession
    controlStream,        \* "open" or "closed": the control stream of mainSubConn
    features,             \* subC.features: records [key, desc]
    call,                 \* the last call: its wire trace and what it returned
    quitCalled,           \* history: Quit has been called on the sub-connection
    featReply,            \* history: the most recent FEAT reply that was read
    credentials           \* ServerConn.username and ServerConn.password

cmdVars == <<quicSession, controlStream, features, call, quitCalled, featReply, credentials>>

vars == <<engineVars, rdvVars, subVars, cmdVars>>

Workers == 0..(MaxPar - 1)
Spawned == 1..(MaxPar - 1)
NoItem == [id |-> 0, task |-> Sentinel]

\* The clamp of nrParallel
Clamp(n, len) == IF len < n \/ n < 0 THEN len ELSE n

\* How many finishing messages MultipleTransfer writes
SentinelCount_OneLess(n) == n - 1
SentinelCount(n) == n

\* The content of taskChannel after the two filling loops
FillTaskChannel_SentinelsFirst(ts, n) ==
    [i \in 1..(Len(ts) + SentinelCount(n)) |->
        IF i <= SentinelCount(n)
        THEN [id |-> i, task |-> Sentinel]
        ELSE [id |-> i, task |-> [ts[i - SentinelCount(n)] EXCEPT !.finished = FALSE]]]
FillTaskChannel(ts, n) ==
    [i \in 1..(Len(ts) + SentinelCount(n)) |->
        IF i <= Len(ts)
        THEN [id |-> i, task |-> [ts[i] EXCEPT !.finished = FALSE]]
        ELSE [id |-> i, task |-> Sentinel]]

\* cap(returnChannel)
ReturnCap == Len(tasks)

EngineInit ==
    /\ tasks = <<>>
    /\ nrParallel = 0
    /\ taskChannel = <<>>
    /\ returnChannel = <<>>
    /\ pc = [w \in Workers |-> IF w = 0 THEN "idle" ELSE "off"]
    /\ cur = [w \in Workers |-> NoItem]
    /\ res = [w \in Workers |-> NilErr]
    /\ ctlOpen = [w \in Workers |-> w = 0]
    /\ errorMessage = ""
    /\ normalReplay = 0
    /\ goRoutineResetReply = 0
    /\ mtResult = NilErr
    /\ localFS = [p \in LocalPaths |-> IF p = "a" THEN File("A") ELSE Absent]
    /\ remoteFS = [p \in RemotePaths |-> File("X")]
    /\ took = [w \in Workers |-> {}]
    /\ setupEnv = [w \in Workers |-> ""]
    /\ execLog = <<>>
    /\ sent = [w \in Workers |-> <<>>]
    /\ retrSent = {}

\* The goroutines that the loop for i := 0; i < nrParallel-1; i++ starts
StartedWorkers_OneMore(np) == 1..np
StartedWorkers(np) == 1..(np - 1)

\* MultipleTransfer up to the start of the goroutines; cwdOk: CurrentDir succeeds
MultipleTransfer_Call(ts, n, cwdOk) ==
    /\ pc[0] = "idle"
    /\ IF ~cwdOk
       THEN /\ mtResult' = Err("Unsuported PWD response format")
            /\ pc' = [pc EXCEPT ![0] = "returnedEarly"]
            /\ UNCHANGED <<tasks, nrParallel, taskChannel, execLog>>
       ELSE LET np == Clamp(n, Len(ts)) IN
            /\ tasks' = ts
            /\ nrParallel' = np
            /\ taskChannel' = FillTaskChannel(ts, np)
            /\ execLog' = [i \in 1..Len(ts) |-> <<>>]
            /\ pc' = [w \in Workers |->
                        IF w = 0 THEN "recv"
                        ELSE IF w \in StartedWorkers(np) THEN "start" ELSE "off"]
            /\ UNCHANGED mtResult
    /\ UNCHANGED <<rdvVars, subVars, cmdVars, returnChannel, cur, res, ctlOpen, errorMessage, normalReplay,
                   goRoutineResetReply, fsVars, took, setupEnv, sent>>

\* task := <-taskChannel and the test of task.finished. When the task is the
\* finishing message the worker leaves its loop: it goes to onFinished, and
\* openAfter tells whether its control stream is still open then.
Recv(w, onFinished, openAfter) ==
    /\ pc[w] = "recv"
    /\ taskChannel # <<>>
    /\ LET item == Head(taskChannel) IN
       /\ taskChannel' = Tail(taskChannel)
       /\ took' = [took EXCEPT ![w] =
                     @ \cup {[id |-> item.id, finished |-> item.task.finished]}]
       /\ IF item.task.finished
          THEN /\ pc' = [pc EXCEPT ![w] = onFinished]
               /\ ctlOpen' = [ctlOpen EXCEPT ![w] = openAfter]
               /\ UNCHANGED cur
          ELSE /\ pc' = [pc EXCEPT ![w] = "exec"]
               /\ cur' = [cur EXCEPT ![w] = item]
               /\ UNCHANGED ctlOpen
    /\ UNCHANGED <<rdvVars, subVars, cmdVars, inputVars, returnChannel, res, collVars, fsVars, setupEnv,
                   execLog, sent>>

\* parallelStorTask / parallelRetrTask run by worker w on the task it holds
Exec(w, env) ==
    /\ pc[w] = "exec"
    /\ env \in EnvOf(cur[w].task)
    /\ LET r == RunTask(cur[w].task, localFS, remoteFS, env) IN
       /\ res' = [res EXCEPT ![w] = r.err]
       /\ localFS' = r.lfs
       /\ remoteFS' = r.rfs
       /\ retrSent' = IF r.wire = <<"RETR">> THEN retrSent \cup {cur[w].id} ELSE retrSent
    /\ execLog' = [execLog EXCEPT ![cur[w].id] = Append(@, w)]
    /\ pc' = [pc EXCEPT ![w] = "send"]
    /\ UNCHANGED <<rdvVars, subVars, cmdVars, inputVars, taskChannel, returnChannel, cur, ctlOpen, collVars,
                   took, setupEnv, sent>>

\* returnChannel <- result: blocks while the channel is full. The worker goes
\* to `to`; openAfter tells whether its control stream is open then.
Send(w, from, to, openAfter) ==
    /\ pc[w] = from
    /\ Len(returnChannel) < ReturnCap
    /\ returnChannel' = Append(returnChannel, res[w])
    /\ sent' = [sent EXCEPT ![w] = Append(@, res[w])]
    /\ pc' = [pc EXCEPT ![w] = to]
    /\ ctlOpen' = [ctlOpen EXCEPT ![w] = openAfter]
    /\ UNCHANGED <<rdvVars, subVars, cmdVars, inputVars, taskChannel, cur, res, collVars, fsVars, took,
                   setupEnv, execLog>>

\* The loop of the calling thread
Main_Recv == Recv(0, "collect", TRUE)
Main_Exec == \E env \in EngineEnv : Exec(0, env)
Main_Send == Send(0, "send", "recv", TRUE)

\* The collector's test of a reply: strings.HasPrefix("Go routine reset.", replay.Error())
IsResetReply(msg) == HasPrefix("Go routine reset.", msg)

\* The condition of the collector's for loop
CollectCond_OneLess(normal, reset, len, np) == normal < len - 1 /\ reset < np
CollectCond(normal, reset, len, np) == normal < len /\ reset < np

\* One iteration of the collector's loop
Collect_Recv ==
    /\ pc[0] = "collect"
    /\ CollectCond(normalReplay, goRoutineResetReply, Len(tasks), nrParallel)
    /\ returnChannel # <<>>
    /\ LET replay == Head(returnChannel) IN
       /\ returnChannel' = Tail(returnChannel)
       /\ errorMessage' = IF replay.nil THEN errorMessage
                          ELSE errorMessage \o "\n" \o replay.msg
       /\ goRoutineResetReply' =
             IF ~replay.nil /\ IsResetReply(replay.msg)
             THEN goRoutineResetReply + 1 ELSE goRoutineResetReply
    /\ normalReplay' = normalReplay + 1
    /\ UNCHANGED <<rdvVars, subVars, cmdVars, inputVars, taskChannel, pc, cur, res, ctlOpen, mtResult, fsVars,
                   took, setupEnv, execLog, sent>>

\* The collector's loop ends and MultipleTransfer returns
Collect_Return ==
    /\ pc[0] = "collect"
    /\ ~CollectCond(normalReplay, goRoutineResetReply, Len(tasks), nrParallel)
    /\ mtResult' = IF errorMessage = "" THEN NilErr ELSE Err(errorMessage)
    /\ pc' = [pc EXCEPT ![0] = "returned"]
    /\ UNCHANGED <<rdvVars, subVars, cmdVars, inputVars, taskChannel, returnChannel, cur, res, ctlOpen,
                   errorMessage, normalReplay, goRoutineResetReply, fsVars,
                   took, setupEnv, execLog, sent>>

\* The message of a worker that gives up
ResetMessage(cause) == "Go routine reset. " \o cause

\* parallelTransfer before its loop: open the control stream, Login, ChangeDir.
\* env is what the environment answers: "ok", or the step that fails.
SetupEnv == {"ok", "openErr", "loginErr", "cwdErr"}
SetupCause(env) ==
    IF env = "openErr" THEN "too many open streams"
    ELSE IF env = "loginErr" THEN "530 Login incorrect."
    ELSE "550 Failed to change directory."

\* Where parallelTransfer continues after the three setup steps
AfterSetup_FallThrough(env) == "recv"
AfterSetup(env) == IF env = "ok" THEN "recv" ELSE "sendReset"

Worker_Setup(w) ==
    /\ pc[w] = "start"
    /\ \E env \in SetupEnv :
          /\ setupEnv' = [setupEnv EXCEPT ![w] = env]
          /\ ctlOpen' = [ctlOpen EXCEPT ![w] = env # "openErr"]
          /\ pc' = [pc EXCEPT ![w] = AfterSetup(env)]
          /\ res' = [res EXCEPT ![w] =
                       IF env = "ok" THEN @ ELSE Err(ResetMessage(SetupCause(env)))]
    /\ UNCHANGED <<rdvVars, subVars, cmdVars, inputVars, taskChannel, returnChannel, cur, collVars, fsVars,
                   took, execLog, sent>>

\* The send of the reset result; then parallelTransfer returns and the deferred
\* subC.Quit() (registered once the control stream is open) closes the stream
Worker_SendReset(w) == Send(w, "sendReset", "exited", FALSE)

\* The worker's loop; on the finishing message parallelTransfer returns and the
\* deferred subC.Quit() closes the control stream
Worker_Recv(w) == Recv(w, "exited", FALSE)
Worker_Exec(w) == \E env \in EngineEnv : Exec(w, env)
Worker_Send(w) == Send(w, "send", "recv", ctlOpen[w])

Call == \E ts \in TaskLists, n \in Requested, cwdOk \in BOOLEAN :
            MultipleTransfer_Call(ts, n, cwdOk)

MainStep == Main_Recv \/ Main_Exec \/ Main_Send \/ Collect_Recv \/ Collect_Return

WorkerStep(w) ==
    \/ Worker_Setup(w)
    \/ Worker_SendReset(w)
    \/ Worker_Recv(w)
    \/ Worker_Exec(w)
    \/ Worker_Send(w)

EngineNext == Call \/ MainStep \/ \E w \in Spawned : WorkerStep(w)

(***************************************************************************)
(* The sub-connections of a session: getNewDataSendStream,                 *)
(* cmdDataReceiveStreamFrom, cmdDataSendStreamFrom, getDataRetriveStream.  *)
(***************************************************************************)
Subs == 1..MaxSubs

StatusAlreadyOpen == 125
StatusAboutToSend == 150
StatusBadFileName == 553

NoStream == 0
Ok(sid) == [err |-> "", sid |-> sid]
Failed(m) == [err |-> m, sid |-> NoStream]

\* strings.SplitN(msg, " ", 2)
IndexBlank(msg) ==
    IF \E i \in 1..Len(msg) : SubSeq(msg, i, i) = " "
    THEN CHOOSE i \in 1..Len(msg) :
            /\ SubSeq(msg, i, i) = " "
            /\ \A j \in 1..(i - 1) : SubSeq(msg, j, j) # " "
    ELSE 0
SplitN2(msg) ==
    IF IndexBlank(msg) = 0 THEN <<msg>>
    ELSE <<SubSeq(msg, 1, IndexBlank(msg) - 1),
           SubSeq(msg, IndexBlank(msg) + 1, Len(msg))>>

\* strconv.ParseInt(s, 10, 64) for the numbers of the model
DigitChars == <<"0", "1", "2", "3", "4", "5", "6", "7", "8", "9">>
IsDigit(c) == \E d \in 1..10 : DigitChars[d] = c
DigitVal(c) == (CHOOSE d \in 1..10 : DigitChars[d] = c) - 1
RECURSIVE DigitsVal(_)
DigitsVal(str) ==
    IF Len(str) = 0 THEN 0
    ELSE 10 * DigitsVal(SubSeq(str, 1, Len(str) - 1)) + DigitVal(SubSeq(str, Len(str), Len(str)))
AllDigits(str) == Len(str) > 0 /\ \A i \in 1..Len(str) : IsDigit(SubSeq(str, i, i))
ParseInt(str) ==
    IF Len(str) > 0 /\ SubSeq(str, 1, 1) \in {"+", "-"}
    THEN LET rest == SubSeq(str, 2, Len(str)) IN
         IF AllDigits(rest)
         THEN [ok |-> TRUE,
               val |-> IF SubSeq(str, 1, 1) = "-" THEN 0 - DigitsVal(rest) ELSE DigitsVal(rest)]
         ELSE [ok |-> FALSE, val |-> 0]
    ELSE IF AllDigits(str) THEN [ok |-> TRUE, val |-> DigitsVal(str)]
         ELSE [ok |-> FALSE, val |-> 0]

\* What cmdDataReceiveStreamFrom makes of the reply to its command: an error,
\* or the stream ID to wait for
ParseReceiveReply_NoCheck(code, msg) ==
    IF code # StatusAlreadyOpen /\ code # StatusAboutToSend
    THEN [err |-> ToString(code) \o " " \o msg, id |-> 0]
    ELSE IF Len(SplitN2(msg)) # 2 \/ ~ParseInt(SplitN2(msg)[1]).ok
    THEN [err |-> "Returnmessage must contain the stream id separated by a blank.", id |-> 0]
    ELSE [err |-> "", id |-> ParseInt(SplitN2(msg)[1]).val]
ParseReceiveReply(code, msg) ==
    IF code # StatusAlreadyOpen /\ code # StatusAboutToSend
    THEN [err |-> ToString(code) \o " " \o msg, id |-> 0]
    ELSE IF Len(SplitN2(msg)) # 2
    THEN [err |-> "Returnmessage must contain the stream id separated by a blank.", id |-> 0]
    ELSE LET n == ParseInt(SplitN2(msg)[1]) IN
         IF ~n.ok \/ n.val < 0 \/ n.val % 4 # 3
         THEN [err |-> "Stream ID has not a valid value for a unidirectional stream from the server.",
               id |-> 0]
         ELSE [err |-> "", id |-> n.val]

\* The map dataRetriveStreams: lookup, delete, assignment
MapHas_Never(m, key) == FALSE
MapHas(m, key) == \E e \in m : e.key = key
MapGet(m, key) == (CHOOSE e \in m : e.key = key).sid
MapDelete_Keep(m, key) == m
MapDelete(m, key) == {e \in m : e.key # key}
MapPut_Drop(m, key, sid) == m
MapPut(m, key, sid) == {e \in m : e.key # key} \cup {[key |-> key, sid |-> sid]}

\* Who holds structAccessMutex while sub-connection s is in AcceptUniStream
\* (Lock on entry, Unlock deferred to the return)
HolderDuringAccept(s) == s

\* The replies of the server to a data command
ServerStreamIDs == {3 + 4 * i : i \in 0..(MaxCmds - 1)}
Announce(id) == ToString(id) \o " Opening data stream."
OtherMessages == {"Opening data stream.", "5 Opening data stream.", "-3 Opening data stream.", "3"}

RdvInit ==
    /\ structAccessMutex = 0
    /\ dataRetriveStreams = {}
    /\ incoming = {}
    /\ nextServerStream = 3
    /\ nextClientStream = 2
    /\ rpc = [s \in Subs |-> "idle"]
    /\ rkind = [s \in Subs |-> ""]
    /\ streamID = [s \in Subs |-> 0]
    /\ ctrl = [s \in Subs |-> <<>>]
    /\ ret = [s \in Subs |-> Ok(NoStream)]
    /\ cmdCount = 0
    /\ announced = [s \in Subs |-> 0]
    /\ handed = <<>>
    /\ accepted = {}
    /\ honest = TRUE
    /\ acceptFailed = FALSE

\* cmdDataReceiveStreamFrom up to controlStream.Cmd (offset 0)
Sub_ReceiveCmd(s) ==
    /\ rpc[s] = "idle"
    /\ cmdCount < MaxCmds
    /\ cmdCount' = cmdCount + 1
    /\ rkind' = [rkind EXCEPT ![s] = "RETR"]
    /\ rpc' = [rpc EXCEPT ![s] = "sent"]
    /\ UNCHANGED <<engineVars, subVars, cmdVars, structAccessMutex, dataRetriveStreams, incoming, nextServerStream,
                   nextClientStream, streamID, ctrl, ret, announced, handed, accepted,
                   honest, acceptFailed>>

\* cmdDataSendStreamFrom up to controlStream.Cmd (offset 0): getNewDataSendStream
\* takes the mutex, opens the stream and releases the mutex
Sub_SendCmd(s) ==
    /\ rpc[s] = "idle"
    /\ cmdCount < MaxCmds
    /\ structAccessMutex = 0
    /\ cmdCount' = cmdCount + 1
    /\ nextClientStream' = nextClientStream + 4
    /\ rkind' = [rkind EXCEPT ![s] = "STOR"]
    /\ rpc' = [rpc EXCEPT ![s] = "sent"]
    /\ UNCHANGED <<engineVars, subVars, cmdVars, structAccessMutex, dataRetriveStreams, incoming, nextServerStream,
                   streamID, ctrl, ret, announced, handed, accepted, honest,
                   acceptFailed>>

\* The server answers a receive command: it opens a stream and announces its ID
Server_Announce(s) ==
    /\ rpc[s] = "sent" /\ rkind[s] = "RETR" /\ ctrl[s] = <<>>
    /\ incoming' = incoming \cup {nextServerStream}
    /\ nextServerStream' = nextServerStream + 4
    /\ ctrl' = [ctrl EXCEPT ![s] = <<[code |-> StatusAboutToSend, msg |-> Announce(nextServerStream)]>>]
    /\ announced' = [announced EXCEPT ![s] = nextServerStream]
    /\ UNCHANGED <<engineVars, subVars, cmdVars, structAccessMutex, dataRetriveStreams, nextClientStream, rpc, rkind,
                   streamID, ret, cmdCount, handed, accepted, honest, acceptFailed>>

\* The server answers a receive command in another way: it refuses, or it
\* announces an ID that is not the one of a stream it opens now
Server_Other(s) ==
    /\ rpc[s] = "sent" /\ rkind[s] = "RETR" /\ ctrl[s] = <<>>
    /\ \/ /\ ctrl' = [ctrl EXCEPT ![s] = <<[code |-> StatusBadFileName, msg |-> "Could not open file."]>>]
          /\ announced' = [announced EXCEPT ![s] = 0]
       \/ \E m \in OtherMessages :
             /\ ctrl' = [ctrl EXCEPT ![s] = <<[code |-> StatusAlreadyOpen, msg |-> m]>>]
             /\ announced' = [announced EXCEPT ![s] = 0]
       \/ \E id \in ServerStreamIDs :
             /\ id < nextServerStream
             /\ ctrl' = [ctrl EXCEPT ![s] = <<[code |-> StatusAlreadyOpen, msg |-> Announce(id)]>>]
             /\ announced' = [announced EXCEPT ![s] = id]
    /\ honest' = FALSE
    /\ UNCHANGED <<engineVars, subVars, cmdVars, structAccessMutex, dataRetriveStreams, incoming, nextServerStream,
                   nextClientStream, rpc, rkind, streamID, ret, cmdCount, handed,
                   accepted, acceptFailed>>

\* The server answers a send command
Server_StorReply(s) ==
    /\ rpc[s] = "sent" /\ rkind[s] = "STOR" /\ ctrl[s] = <<>>
    /\ \E code \in {StatusAboutToSend, StatusBadFileName} :
          ctrl' = [ctrl EXCEPT ![s] = <<[code |-> code, msg |-> "Ok to send data."]>>]
    /\ UNCHANGED <<engineVars, subVars, cmdVars, structAccessMutex, dataRetriveStreams, incoming, nextServerStream,
                   nextClientStream, rpc, rkind, streamID, ret, cmdCount, announced,
                   handed, accepted, honest, acceptFailed>>

\* controlStream.ReadResponse(-1) and the checks of the reply
Sub_ReadResponse(s) ==
    /\ rpc[s] = "sent" /\ ctrl[s] # <<>>
    /\ ctrl' = [ctrl EXCEPT ![s] = Tail(@)]
    /\ LET reply == Head(ctrl[s])
           parsed == ParseReceiveReply(reply.code, reply.msg) IN
       IF rkind[s] = "STOR"
       THEN /\ ret' = [ret EXCEPT ![s] =
                         IF reply.code # StatusAlreadyOpen /\ reply.code # StatusAboutToSend
                         THEN Failed(ToString(reply.code) \o " " \o reply.msg)
                         ELSE Ok(nextClientStream - 4)]
            /\ rpc' = [rpc EXCEPT ![s] = "done"]
            /\ UNCHANGED streamID
       ELSE IF parsed.err # ""
       THEN /\ ret' = [ret EXCEPT ![s] = Failed(parsed.err)]
            /\ rpc' = [rpc EXCEPT ![s] = "done"]
            /\ UNCHANGED streamID
       ELSE /\ streamID' = [streamID EXCEPT ![s] = parsed.id]
            /\ rpc' = [rpc EXCEPT ![s] = "lock"]
            /\ UNCHANGED ret
    /\ UNCHANGED <<engineVars, subVars, cmdVars, structAccessMutex, dataRetriveStreams, incoming, nextServerStream,
                   nextClientStream, rkind, cmdCount, announced, handed, accepted,
                   honest, acceptFailed>>

\* One pass of the loop of getDataRetriveStream up to the point where it
\* returns or calls AcceptUniStream, on the map m
Lookup(s, m) ==
    IF MapHas(m, streamID[s])
    THEN /\ dataRetriveStreams' = MapDelete(m, streamID[s])
         /\ ret' = [ret EXCEPT ![s] = Ok(MapGet(m, streamID[s]))]
         /\ handed' = Append(handed, [sub |-> s, sid |-> MapGet(m, streamID[s]),
                                      want |-> streamID[s], announced |-> announced[s]])
         /\ rpc' = [rpc EXCEPT ![s] = "done"]
         /\ structAccessMutex' = 0
    ELSE /\ dataRetriveStreams' = m
         /\ rpc' = [rpc EXCEPT ![s] = "accept"]
         /\ structAccessMutex' = HolderDuringAccept(s)
         /\ UNCHANGED <<ret, handed>>

\* getDataRetriveStream: Lock, then the first pass of the loop
Sub_Lock(s) ==
    /\ rpc[s] = "lock"
    /\ structAccessMutex = 0
    /\ Lookup(s, dataRetriveStreams)
    /\ UNCHANGED <<engineVars, subVars, cmdVars, incoming, nextServerStream, nextClientStream, rkind, streamID, ctrl,
                   cmdCount, announced, accepted, honest, acceptFailed>>

\* AcceptUniStream returns a stream: it is filed under its ID; a greater ID than
\* the wanted one ends the rendezvous, otherwise the loop goes on
Sub_Accept(s) ==
    /\ rpc[s] = "accept"
    /\ \E sid \in incoming :
          /\ incoming' = incoming \ {sid}
          /\ accepted' = accepted \cup {sid}
          /\ IF sid > streamID[s]
             THEN /\ dataRetriveStreams' = MapPut(dataRetriveStreams, sid, sid)
                  /\ ret' = [ret EXCEPT ![s] = Failed("Could not get wanted stream.")]
                  /\ rpc' = [rpc EXCEPT ![s] = "done"]
                  /\ structAccessMutex' = 0
                  /\ UNCHANGED handed
             ELSE Lookup(s, MapPut(dataRetriveStreams, sid, sid))
    /\ UNCHANGED <<engineVars, subVars, cmdVars, nextServerStream, nextClientStream, rkind, streamID, ctrl, cmdCount,
                   announced, honest, acceptFailed>>

\* AcceptUniStream returns an error
Sub_AcceptError(s) ==
    /\ rpc[s] = "accept"
    /\ ret' = [ret EXCEPT ![s] = Failed("accept: session closed")]
    /\ rpc' = [rpc EXCEPT ![s] = "done"]
    /\ structAccessMutex' = 0
    /\ acceptFailed' = TRUE
    /\ UNCHANGED <<engineVars, subVars, cmdVars, dataRetriveStreams, incoming, nextServerStream, nextClientStream,
                   rkind, streamID, ctrl, cmdCount, announced, handed, accepted, honest>>

\* The data command has returned; the sub-connection is free for the next one
Sub_Return(s) ==
    /\ rpc[s] = "done"
    /\ rpc' = [rpc EXCEPT ![s] = "idle"]
    /\ ret' = [ret EXCEPT ![s] = Ok(NoStream)]
    /\ streamID' = [streamID EXCEPT ![s] = 0]
    /\ rkind' = [rkind EXCEPT ![s] = ""]
    /\ announced' = [announced EXCEPT ![s] = 0]
    /\ UNCHANGED <<engineVars, subVars, cmdVars, structAccessMutex, dataRetriveStreams, incoming, nextServerStream,
                   nextClientStream, ctrl, cmdCount, handed, accepted, honest,
                   acceptFailed>>

SubStep(s) ==
        \/ Sub_ReceiveCmd(s)
        \/ Sub_SendCmd(s)
        \/ Server_Announce(s)
        \/ Server_Other(s)
        \/ Server_StorReply(s)
        \/ Sub_ReadResponse(s)
        \/ Sub_Lock(s)
        \/ Sub_Accept(s)
        \/ Sub_AcceptError(s)
        \/ Sub_Return(s)

(***************************************************************************)
(* One sub-connection and its server: StorFrom, RetrFrom with the reader's *)
(* Close, NameList, cmdDataSendStreamFrom, cmdDataReceiveStreamFrom, cmd.   *)
(***************************************************************************)
StatusRequestFilePending == 350
StatusClosingDataConnection == 226
StatusFileUnavailable == 550

\* fmt.Sprintf with one verb (%s or %d) and its argument as text
IndexOf(str, sub) ==
    IF \E i \in 1..(Len(str) - Len(sub) + 1) : SubSeq(str, i, i + Len(sub) - 1) = sub
    THEN CHOOSE i \in 1..(Len(str) - Len(sub) + 1) :
            /\ SubSeq(str, i, i + Len(sub) - 1) = sub
            /\ \A j \in 1..(i - 1) : SubSeq(str, j, j + Len(sub) - 1) # sub
    ELSE 0
Sprintf(format, verb, arg) ==
    IF IndexOf(format, verb) = 0 THEN format
    ELSE SubSeq(format, 1, IndexOf(format, verb) - 1) \o arg
         \o SubSeq(format, IndexOf(format, verb) + Len(verb), Len(format))

\* The format of the command with the stream ID put in (cmdDataSendStreamFrom)
WithStreamID_AtEnd(format, sid) == format \o " " \o ToString(sid)
WithStreamID(format, sid) ==
    IF Len(SplitN2(format)) < 2
    THEN SplitN2(format)[1] \o " " \o ToString(sid)
    ELSE SplitN2(format)[1] \o " " \o ToString(sid) \o " " \o SplitN2(format)[2]

\* Whether the data commands send REST before the transfer command
NeedsRest_Never(offset) == FALSE
NeedsRest_Always(offset) == TRUE
NeedsRest(offset) == offset # 0

\* S[k:], and nothing when k is beyond the end
From(data, k) == IF k >= Len(data) THEN "" ELSE SubSeq(data, k + 1, Len(data))

\* S[:k], filled up to k bytes when S is shorter
RECURSIVE Fill(_)
Fill(n) == IF n <= 0 THEN "" ELSE "?" \o Fill(n - 1)
UpTo(data, k) == IF k <= Len(data) THEN SubSeq(data, 1, k) ELSE data \o Fill(k - Len(data))

\* bufio.Scanner with ScanLines over the data of a stream
RECURSIVE ScanLines(_)
ScanLines(data) ==
    IF data = "" THEN <<>>
    ELSE IF IndexOf(data, "\n") = 0 THEN <<data>>
    ELSE <<SubSeq(data, 1, IndexOf(data, "\n") - 1)>>
         \o ScanLines(SubSeq(data, IndexOf(data, "\n") + 1, Len(data)))

\* The operations of a caller. A reader hands out its bytes and then ends with
\* io.EOF, or with an error when it fails.
Stor(path, bytes, fails) ==
    [kind |-> "STOR", path |-> path, offset |-> 0, bytes |-> bytes, fails |-> fails]
StorFrom(path, bytes, fails, offset) ==
    [kind |-> "STOR", path |-> path, offset |-> offset, bytes |-> bytes, fails |-> fails]
RetrFrom(path, offset) ==
    [kind |-> "RETR", path |-> path, offset |-> offset, bytes |-> "", fails |-> FALSE]
NameList(path) ==
    [kind |-> "NLST", path |-> path, offset |-> 0, bytes |-> "", fails |-> FALSE]
NoOp == [kind |-> "", path |-> "", offset |-> 0, bytes |-> "", fails |-> FALSE]

CommandFormat(kind) == kind \o " %s"

Ops ==
    {Stor("x", "ab", FALSE), Stor("x", "cd", TRUE), StorFrom("x", "e", FALSE, 1),
     RetrFrom("x", 0), RetrFrom("x", 1), NameList("x")}
Scripts == UNION {[1..n -> Ops] : n \in 0..MaxOps}

\* What an operation returns: the error, and the bytes or lines it delivered
Returns(err, data) == [err |-> err, data |-> data]
NoSendStream == [sid |-> 0, data |-> "", closed |-> TRUE]

SubInitWith(ops, files) ==
    /\ script = ops
    /\ program = ops
    /\ cpc = "idle"
    /\ op = NoOp
    /\ opIndex = 0
    /\ want = 0
    /\ cret = Returns("", "")
    /\ results = <<>>
    /\ controlOut = <<>>
    /\ controlIn = <<>>
    /\ sendStream = NoSendStream
    /\ recvStreams = {}
    /\ nextSendStream = 2
    /\ nextRecvStream = 3
    /\ srvFiles = files
    /\ srvRest = 0
    /\ srvPc = [at |-> "idle", path |-> "", xfer |-> 0]
    /\ cmdLog = <<>>
    /\ completed = {}
    /\ read226 = {}

SubInit == SubInitWith(<<>>, [p \in RemotePaths |-> Absent])

\* controlStream.Cmd: the command line goes to the server
SendLine(line) ==
    /\ controlOut' = Append(controlOut, [line |-> line, xfer |-> opIndex'])
    /\ cmdLog' = Append(cmdLog, line)

\* The transfer command of the running operation o on the send stream sid
TransferLine(o, sid) ==
    IF o.kind = "STOR"
    THEN Sprintf(WithStreamID(CommandFormat(o.kind), sid), "%s", o.path)
    ELSE Sprintf(CommandFormat(o.kind), "%s", o.path)

\* The operation returns r
Return(r) ==
    /\ cpc' = "idle"
    /\ cret' = r
    /\ results' = Append(results, r)
    /\ completed' = IF r.err = "" THEN completed \cup {opIndex} ELSE completed

\* The caller starts its next operation: StorFrom opens its send stream first
\* (getNewDataSendStream); then REST goes out when the offset is not 0,
\* otherwise the transfer command
Client_Start ==
    /\ cpc = "idle"
    /\ program # <<>>
    /\ LET o == Head(program)
           sid == IF o.kind = "STOR" THEN nextSendStream ELSE 0 IN
       /\ op' = o
       /\ program' = Tail(program)
       /\ opIndex' = opIndex + 1
       /\ IF o.kind = "STOR"
          THEN /\ sendStream' = [sid |-> nextSendStream, data |-> "", closed |-> FALSE]
               /\ nextSendStream' = nextSendStream + 4
          ELSE UNCHANGED <<sendStream, nextSendStream>>
       /\ IF NeedsRest(o.offset)
          THEN /\ SendLine(Sprintf("REST %d", "%d", ToString(o.offset)))
               /\ cpc' = "rest"
          ELSE /\ SendLine(TransferLine(o, sid))
               /\ cpc' = "reply"
    /\ cret' = Returns("", "")
    /\ want' = 0
    /\ UNCHANGED <<engineVars, rdvVars, cmdVars, script, results, controlIn, recvStreams,
                   nextRecvStream, srvFiles, srvRest, srvPc, completed, read226>>

\* cmd(StatusRequestFilePending, "REST %d", offset) reads its reply; then the
\* transfer command goes out
Client_RestReply ==
    /\ cpc = "rest"
    /\ controlIn # <<>>
    /\ controlIn' = Tail(controlIn)
    /\ opIndex' = opIndex
    /\ IF Head(controlIn).code # StatusRequestFilePending
       THEN /\ Return(Returns(ToString(Head(controlIn).code) \o " " \o Head(controlIn).msg, ""))
            /\ sendStream' = [sendStream EXCEPT !.closed = TRUE]
            /\ UNCHANGED <<controlOut, cmdLog>>
       ELSE /\ SendLine(TransferLine(op, sendStream.sid))
            /\ cpc' = "reply"
            /\ UNCHANGED <<cret, results, completed, sendStream>>
    /\ UNCHANGED <<engineVars, rdvVars, cmdVars, script, program, op, want, recvStreams,
                   nextSendStream, nextRecvStream, srvFiles, srvRest, srvPc, read226>>

\* controlStream.ReadResponse(-1) after the transfer command. StorFrom then
\* copies the reader to the stream and closes the stream; a receive command
\* parses the stream ID and goes to getDataRetriveStream.
Client_Reply ==
    /\ cpc = "reply"
    /\ controlIn # <<>>
    /\ controlIn' = Tail(controlIn)
    /\ LET reply == Head(controlIn)
           parsed == ParseReceiveReply(reply.code, reply.msg) IN
       IF op.kind = "STOR"
       THEN /\ sendStream' = [sendStream EXCEPT
                                !.closed = TRUE,
                                !.data = IF reply.code \in {StatusAlreadyOpen, StatusAboutToSend}
                                         THEN op.bytes ELSE @]
            /\ IF reply.code \notin {StatusAlreadyOpen, StatusAboutToSend}
               THEN Return(Returns(ToString(reply.code) \o " " \o reply.msg, ""))
               ELSE IF op.fails
               THEN Return(Returns("read error", ""))
               ELSE /\ cpc' = "final"
                    /\ UNCHANGED <<cret, results, completed>>
            /\ UNCHANGED <<want, recvStreams>>
       ELSE /\ UNCHANGED sendStream
            /\ IF parsed.err # ""
               THEN /\ Return(Returns(parsed.err, ""))
                    /\ UNCHANGED <<want, recvStreams>>
               ELSE /\ want' = parsed.id
                    /\ IF \E e \in recvStreams : e.filed /\ e.sid = parsed.id
                       THEN /\ cpc' = "data"
                            /\ recvStreams' = {e \in recvStreams : e.sid # parsed.id}
                            /\ cret' = Returns("", (CHOOSE e \in recvStreams : e.sid = parsed.id).data)
                       ELSE /\ cpc' = "accept"
                            /\ UNCHANGED <<recvStreams, cret>>
                    /\ UNCHANGED <<results, completed>>
    /\ UNCHANGED <<engineVars, rdvVars, cmdVars, script, program, op, opIndex, controlOut,
                   nextSendStream, nextRecvStream, srvFiles, srvRest, srvPc, cmdLog,
                   read226>>

\* getDataRetriveStream: AcceptUniStream returns a stream, which is filed; it
\* is the wanted one, or one with a greater ID, or the loop goes on
Client_Accept ==
    /\ cpc = "accept"
    /\ \E e \in recvStreams :
          /\ ~e.filed
          /\ IF e.sid > want
             THEN /\ recvStreams' = (recvStreams \ {e}) \cup {[e EXCEPT !.filed = TRUE]}
                  /\ Return(Returns("Could not get wanted stream.", ""))
             ELSE IF e.sid = want
             THEN /\ recvStreams' = recvStreams \ {e}
                  /\ cpc' = "data"
                  /\ cret' = Returns("", e.data)
                  /\ UNCHANGED <<results, completed>>
             ELSE /\ recvStreams' = (recvStreams \ {e}) \cup {[e EXCEPT !.filed = TRUE]}
                  /\ UNCHANGED <<cpc, cret, results, completed>>
    /\ UNCHANGED <<engineVars, rdvVars, cmdVars, script, program, op, opIndex, want, controlOut,
                   controlIn, sendStream, nextSendStream, nextRecvStream, srvFiles,
                   srvRest, srvPc, cmdLog, read226>>

\* The caller reads the stream to its end (io.Copy, ioutil.ReadAll, the scanner
\* of NameList); cret holds what the stream carries
Client_ReadAll ==
    /\ cpc = "data"
    /\ cpc' = "final"
    /\ UNCHANGED <<engineVars, rdvVars, cmdVars, script, program, op, opIndex, want, cret,
                   results, controlOut, controlIn, sendStream, recvStreams,
                   nextSendStream, nextRecvStream, srvFiles, srvRest, srvPc, cmdLog,
                   completed, read226>>

\* controlStream.ReadResponse(StatusClosingDataConnection): the last statement
\* of StorFrom, the reader's Close, the deferred call of NameList (which drops
\* the error)
Client_Final ==
    /\ cpc = "final"
    /\ controlIn # <<>>
    /\ controlIn' = Tail(controlIn)
    /\ LET reply == Head(controlIn) IN
       /\ read226' = IF reply.code = StatusClosingDataConnection
                     THEN read226 \cup {reply.xfer} ELSE read226
       /\ IF reply.code = StatusClosingDataConnection \/ op.kind = "NLST"
          THEN Return(cret)
          ELSE Return(Returns(ToString(reply.code) \o " " \o reply.msg, cret.data))
    /\ UNCHANGED <<engineVars, rdvVars, cmdVars, script, program, op, opIndex, want, controlOut,
                   sendStream, recvStreams, nextSendStream, nextRecvStream, srvFiles,
                   srvRest, srvPc, cmdLog>>

\* The reply of the server on the control stream
Reply(code, msg, xfer) == [code |-> code, msg |-> msg, xfer |-> xfer]

\* The listing the server sends for NLST
Listing == IF srvFiles["x"].exists THEN "x\n" ELSE ""

\* The server reads a command line and answers it. REST sets the offset of the
\* next transfer; RETR and NLST open a stream, announce it and send the data;
\* STOR announces that the server reads the stream named in the command.
Server_Command ==
    /\ srvPc.at = "idle"
    /\ controlOut # <<>>
    /\ controlOut' = Tail(controlOut)
    /\ LET cmd == Head(controlOut)
           verb == SplitN2(cmd.line)[1]
           arg == IF Len(SplitN2(cmd.line)) = 2 THEN SplitN2(cmd.line)[2] ELSE ""
           open(data) ==
              /\ recvStreams' = recvStreams \cup
                    {[sid |-> nextRecvStream, data |-> data, filed |-> FALSE]}
              /\ nextRecvStream' = nextRecvStream + 4
              /\ controlIn' = Append(controlIn,
                    Reply(StatusAboutToSend, Announce(nextRecvStream), cmd.xfer))
              /\ srvPc' = [at |-> "sent", path |-> "", xfer |-> cmd.xfer]
              /\ srvRest' = 0 IN
       IF verb = "REST"
       THEN /\ srvRest' = ParseInt(arg).val
            /\ controlIn' = Append(controlIn,
                  Reply(StatusRequestFilePending, "Restart position accepted.", cmd.xfer))
            /\ UNCHANGED <<recvStreams, nextRecvStream, srvPc>>
       ELSE IF verb = "RETR"
       THEN IF srvFiles[arg].exists
            THEN open(From(srvFiles[arg].data, srvRest))
            ELSE /\ controlIn' = Append(controlIn,
                       Reply(StatusFileUnavailable, "Failed to open file.", cmd.xfer))
                 /\ srvRest' = 0
                 /\ UNCHANGED <<recvStreams, nextRecvStream, srvPc>>
       ELSE IF verb = "NLST"
       THEN open(Listing)
       ELSE /\ controlIn' = Append(controlIn,
                  Reply(StatusAboutToSend, "Ok to send data.", cmd.xfer))
            /\ srvPc' = [at |-> "storing", path |-> SplitN2(arg)[2], xfer |-> cmd.xfer]
            /\ UNCHANGED <<recvStreams, nextRecvStream, srvRest>>
    /\ UNCHANGED <<engineVars, rdvVars, cmdVars, script, program, cpc, op, opIndex, want, cret,
                   results, sendStream, nextSendStream, srvFiles, cmdLog, completed,
                   read226>>

\* The server has read the send stream to its end: it stores the bytes from
\* the offset on and sends 226
Server_Stored ==
    /\ srvPc.at = "storing"
    /\ sendStream.closed
    /\ srvFiles' = [srvFiles EXCEPT ![srvPc.path] =
                      File(UpTo(IF @.exists THEN @.data ELSE "", srvRest) \o sendStream.data)]
    /\ srvRest' = 0
    /\ controlIn' = Append(controlIn,
          Reply(StatusClosingDataConnection, "Transfer complete.", srvPc.xfer))
    /\ srvPc' = [at |-> "idle", path |-> "", xfer |-> 0]
    /\ UNCHANGED <<engineVars, rdvVars, cmdVars, script, program, cpc, op, opIndex, want, cret,
                   results, controlOut, sendStream, recvStreams, nextSendStream,
                   nextRecvStream, cmdLog, completed, read226>>

\* The server has sent the data of a RETR or NLST: it sends 226
Server_Sent ==
    /\ srvPc.at = "sent"
    /\ controlIn' = Append(controlIn,
          Reply(StatusClosingDataConnection, "Transfer complete.", srvPc.xfer))
    /\ srvPc' = [at |-> "idle", path |-> "", xfer |-> 0]
    /\ UNCHANGED <<engineVars, rdvVars, cmdVars, script, program, cpc, op, opIndex, want, cret,
                   results, controlOut, sendStream, recvStreams, nextSendStream,
                   nextRecvStream, srvFiles, srvRest, cmdLog, completed, read226>>

ClientStep ==
    \/ Client_Start
    \/ Client_RestReply
    \/ Client_Reply
    \/ Client_Accept
    \/ Client_ReadAll
    \/ Client_Final

ServerStep == Server_Command \/ Server_Stored \/ Server_Sent

(***************************************************************************)
(* The single commands of a sub-connection: Login, Feat, CurrentDir,       *)
(* Rename, NoOp, Quit, and the facade's Quit that forwards to the default  *)
(* sub-connection. The transport and the server answer every command with  *)
(* any of: the write fails, the reply cannot be read, a reply arrives.     *)
(***************************************************************************)
StatusCommandOK == 200
StatusSystem == 211
StatusLoggedIn == 230
StatusRequestedFileActionOK == 250
StatusPathCreated == 257
StatusUserOK == 331
StatusNotImplemented == 502

\* What the transport and the server make of one command
SendFails == [sent |-> FALSE, read |-> FALSE, code |-> 0, msg |-> ""]
ReadFails == [sent |-> TRUE, read |-> FALSE, code |-> 0, msg |-> ""]
Answer(code, msg) == [sent |-> TRUE, read |-> TRUE, code |-> code, msg |-> msg]
Answered(env, code) == env.sent /\ env.read /\ env.code = code

\* textproto ReadResponse(expectCode): code, message and the error
ReadResponse_AnyCode(expected, env) ==
    IF ~env.read THEN [code |-> 0, msg |-> "", err |-> Err("EOF")]
    ELSE [code |-> env.code, msg |-> env.msg, err |-> NilErr]
ReadResponse(expected, env) ==
    IF ~env.read THEN [code |-> 0, msg |-> "", err |-> Err("EOF")]
    ELSE IF \/ 1 <= expected /\ expected < 10 /\ env.code \div 100 # expected
            \/ 10 <= expected /\ expected < 100 /\ env.code \div 10 # expected
            \/ 100 <= expected /\ expected < 1000 /\ env.code # expected
    THEN [code |-> env.code, msg |-> env.msg, err |-> Err(ToString(env.code) \o " " \o env.msg)]
    ELSE [code |-> env.code, msg |-> env.msg, err |-> NilErr]

\* subC.cmd(expected, format, args...): Cmd, then ReadResponse(expected)
cmd(expected, env) ==
    IF ~env.sent THEN [code |-> 0, msg |-> "", err |-> Err("write on closed stream")]
    ELSE ReadResponse(expected, env)

\* A command line put on the control stream, with what came of it
Step(line, env) == [line |-> line, env |-> env]

\* What a call did: the commands it issued, the error and the value it
\* returned, the features map it left, whether it closed the control stream
Did(trace, err, value, feats, closed) ==
    [trace |-> trace, err |-> err, value |-> value, features |-> feats,
     closed |-> closed, panicked |-> FALSE]
\* The call ended in a run-time panic (slice bounds or index out of range)
Panicked(trace, feats) ==
    [trace |-> trace, err |-> NilErr, value |-> "", features |-> feats,
     closed |-> FALSE, panicked |-> TRUE]

\* strings.Split(s, sep)
RECURSIVE Split(_, _)
Split(s, sep) ==
    IF IndexOf(s, sep) = 0 THEN <<s>>
    ELSE <<SubSeq(s, 1, IndexOf(s, sep) - 1)>>
         \o Split(SubSeq(s, IndexOf(s, sep) + Len(sep), Len(s)), sep)

\* strings.TrimSpace(s) for the white space of the model: blank, tab, CR
RECURSIVE TrimSpace(_)
TrimSpace(s) ==
    IF Len(s) = 0 THEN s
    ELSE IF SubSeq(s, 1, 1) \in {" ", "\t", "\r"} THEN TrimSpace(SubSeq(s, 2, Len(s)))
    ELSE IF SubSeq(s, Len(s), Len(s)) \in {" ", "\t", "\r"}
    THEN TrimSpace(SubSeq(s, 1, Len(s) - 1))
    ELSE s

\* The loop of Feat over the lines of a 211 reply: every line that starts with
\* a blank is trimmed, split at its first blank, and assigned into the map
RECURSIVE FeatLines(_, _)
FeatLines(feats, lines) ==
    IF Len(lines) = 0 THEN feats
    ELSE LET line == TrimSpace(Head(lines))
             command == SplitN2(line)[1]
             commandDesc == IF Len(SplitN2(line)) = 2 THEN SplitN2(line)[2] ELSE ""
         IN IF ~HasPrefix(Head(lines), " ") THEN FeatLines(feats, Tail(lines))
            ELSE FeatLines({e \in feats : e.key # command}
                              \cup {[key |-> command, desc |-> commandDesc]},
                           Tail(lines))

\* Feat: FEAT with any reply code accepted; only a 211 reply is parsed
Feat_Strict(feats, env) ==
    IF ~cmd(StatusSystem, env).err.nil
    THEN Did(<<Step("FEAT", env)>>, cmd(StatusSystem, env).err, "", feats, FALSE)
    ELSE Did(<<Step("FEAT", env)>>, NilErr, "",
             FeatLines(feats, Split(env.msg, "\n")), FALSE)
Feat(feats, env) ==
    LET r == cmd(-1, env) IN
    IF ~r.err.nil THEN Did(<<Step("FEAT", env)>>, r.err, "", feats, FALSE)
    ELSE IF r.code # StatusSystem THEN Did(<<Step("FEAT", env)>>, NilErr, "", feats, FALSE)
    ELSE Did(<<Step("FEAT", env)>>, NilErr, "",
             FeatLines(feats, Split(r.msg, "\n")), FALSE)

\* Quit: QUIT is written, its error dropped; the result is the error of Close
Quit_KeepOpen(feats, env, closeErr) ==
    Did(<<Step("QUIT", env)>>, closeErr, "", feats, FALSE)
Quit_CmdErr(feats, env, closeErr) ==
    Did(<<Step("QUIT", env)>>,
        IF ~env.sent THEN Err("write on closed stream") ELSE closeErr, "", feats, TRUE)
Quit(feats, env, closeErr) ==
    Did(<<Step("QUIT", env)>>, closeErr, "", feats, TRUE)

\* Login: USER, PASS after a 331, TYPE I, FEAT (and Quit when Feat fails).
\* env holds what comes of USER, PASS, TYPE, FEAT and QUIT, in this order.
Login(user, password, feats, env, closeErr) ==
    LET u == cmd(-1, env[1])
        p == cmd(StatusLoggedIn, env[2])
        t == cmd(StatusCommandOK, env[3])
        f == Feat(feats, env[4])
        q == Quit(feats, env[5], closeErr)
        USER == <<Step(Sprintf("USER %s", "%s", user), env[1])>>
        auth == IF u.code = StatusUserOK
                THEN USER \o <<Step(Sprintf("PASS %s", "%s", password), env[2])>>
                ELSE USER
        typed == auth \o <<Step("TYPE I", env[3])>>
    IN IF ~u.err.nil THEN Did(USER, u.err, "", feats, FALSE)
       ELSE IF u.code # StatusLoggedIn /\ u.code # StatusUserOK
       THEN Did(USER, Err(u.msg), "", feats, FALSE)
       ELSE IF u.code = StatusUserOK /\ ~p.err.nil THEN Did(auth, p.err, "", feats, FALSE)
       ELSE IF ~t.err.nil THEN Did(typed, t.err, "", feats, FALSE)
       ELSE IF ~f.err.nil THEN Did(typed \o f.trace \o q.trace, f.err, "", feats, q.closed)
       ELSE Did(typed \o f.trace, NilErr, "", f.features, FALSE)

\* Rename: RNFR expecting 350, then RNTO expecting 250
Rename_BothAlways(from, to, feats, env) ==
    Did(<<Step(Sprintf("RNFR %s", "%s", from), env[1]),
          Step(Sprintf("RNTO %s", "%s", to), env[2])>>,
        cmd(StatusRequestedFileActionOK, env[2]).err, "", feats, FALSE)
Rename(from, to, feats, env) ==
    LET f == cmd(StatusRequestFilePending, env[1])
        t == cmd(StatusRequestedFileActionOK, env[2])
        RNFR == <<Step(Sprintf("RNFR %s", "%s", from), env[1])>>
    IN IF ~f.err.nil THEN Did(RNFR, f.err, "", feats, FALSE)
       ELSE Did(RNFR \o <<Step(Sprintf("RNTO %s", "%s", to), env[2])>>, t.err, "", feats, FALSE)

\* NoOp: NOOP expecting 200
SubConn_NoOp(feats, env) == Did(<<Step("NOOP", env)>>, cmd(StatusCommandOK, env).err, "", feats, FALSE)

\* strings.LastIndex(str, sub) + 1, and 0 when sub does not occur
LastIndexOf(str, sub) ==
    IF IndexOf(str, sub) = 0 THEN 0
    ELSE CHOOSE i \in 1..(Len(str) - Len(sub) + 1) :
            /\ SubSeq(str, i, i + Len(sub) - 1) = sub
            /\ \A j \in (i + 1)..(Len(str) - Len(sub) + 1) : SubSeq(str, j, j + Len(sub) - 1) # sub

\* The Go slice expression s[lo:hi] of a string or a slice: it panics unless
\* 0 <= lo <= hi <= len(s)
Slice(s, lo, hi) ==
    IF 0 <= lo /\ lo <= hi /\ hi <= Len(s)
    THEN [ok |-> TRUE, val |-> IF lo = hi THEN SubSeq(s, 1, 0) ELSE SubSeq(s, lo + 1, hi)]
    ELSE [ok |-> FALSE, val |-> s]

\* CurrentDir: PWD expecting 257; the path is msg[start+1 : end]
CurrentDir(feats, env) ==
    LET r == cmd(StatusPathCreated, env)
        start == IndexOf(r.msg, "\"") - 1
        end == LastIndexOf(r.msg, "\"") - 1
        PWD == <<Step("PWD", env)>>
    IN IF ~r.err.nil THEN Did(PWD, r.err, "", feats, FALSE)
       ELSE IF start = -1 \/ end = -1
       THEN Did(PWD, Err("Unsuported PWD response format"), "", feats, FALSE)
       ELSE IF ~Slice(r.msg, start + 1, end).ok THEN Panicked(PWD, feats)
       ELSE Did(PWD, NilErr, Slice(r.msg, start + 1, end).val, feats, FALSE)

(***************************************************************************)
(* List and the parsers of its lines. An Entry is a record; its Time is    *)
(* the text that time.Parse accepted. A parser returns an entry and an     *)
(* error, or panics.                                                       *)
(***************************************************************************)
MaxLines == 2

EntryTypeFile == 0
EntryTypeFolder == 1
EntryTypeLink == 2

errUnsupportedListLine == Err("Unsupported LIST line")

\* &Entry{} with its zero values; what a parser returns
Entry(name, type, size, time) == [Name |-> name, Type |-> type, Size |-> size, Time |-> time]
Parse(e, err) == [e |-> e, err |-> err, panicked |-> FALSE]
ParsePanics == [e |-> Entry("", EntryTypeFile, 0, ""), err |-> NilErr, panicked |-> TRUE]

\* strings.Fields(s), the white space of the model being the blank
RECURSIVE Fields(_)
Fields(s) ==
    IF Len(s) = 0 THEN <<>>
    ELSE IF SubSeq(s, 1, 1) = " " THEN Fields(SubSeq(s, 2, Len(s)))
    ELSE IF IndexBlank(s) = 0 THEN <<s>>
    ELSE <<SubSeq(s, 1, IndexBlank(s) - 1)>> \o Fields(SubSeq(s, IndexBlank(s), Len(s)))

\* strings.Join(fields, " ")
RECURSIVE Join(_)
Join(fields) ==
    IF Len(fields) = 0 THEN ""
    ELSE IF Len(fields) = 1 THEN fields[1]
    ELSE fields[1] \o " " \o Join(Tail(fields))

\* strings.TrimLeft(s, " ")
RECURSIVE TrimLeft(_)
TrimLeft(s) ==
    IF Len(s) > 0 /\ SubSeq(s, 1, 1) = " " THEN TrimLeft(SubSeq(s, 2, Len(s))) ELSE s

\* time.Parse(layout, value) succeeds when value has the shape of the layout:
\* digits where the layout has digits, the same text elsewhere (the values of
\* the model are in range, so the range checks of time.Parse are left out)
TimeParse(layout, value) ==
    LET shape[i \in 0..Len(value)] ==
            IF i = 0 THEN ""
            ELSE shape[i - 1]
                 \o (IF IsDigit(SubSeq(value, i, i)) THEN "9" ELSE SubSeq(value, i, i))
    IN shape[Len(value)] \in
        CASE layout = "20060102150405" -> {"99999999999999"}
          [] layout = "01-02-06  03:04PM" -> {"99-99-99  99:99AM", "99-99-99  99:99PM"}
          [] layout = "2006-01-02  15:04" -> {"9999-99-99  99:99"}
          [] layout = "_2 Jan 06 15:04 MST" ->
                {d \o " " \o m \o " 99 99:99 GMT" :
                    d \in {"9", "99"},
                    m \in {"Jan", "Feb", "Mar", "Apr", "May", "Jun",
                           "Jul", "Aug", "Sep", "Oct", "Nov", "Dec"}}

\* strconv.ParseUint for the decimal numbers of the model
ParseUint(str) ==
    IF AllDigits(str) THEN [ok |-> TRUE, val |-> DigitsVal(str)] ELSE [ok |-> FALSE, val |-> 0]

\* Entry.SetTime(fields) with fields = month, day, year or time of day; the
\* current year is written "26"
SetTime(fields) ==
    LET timeStr == IF Contains(fields[3], ":")
                   THEN fields[2] \o " " \o fields[1] \o " 26 " \o fields[3] \o " GMT"
                   ELSE fields[2] \o " " \o fields[1] \o " " \o SubSeq(fields[3], 3, 4)
                        \o " 00:00 GMT"
    IN IF ~Contains(fields[3], ":") /\ Len(fields[3]) # 4
       THEN [err |-> Err("Invalid year format in time string"), time |-> ""]
       ELSE IF ~TimeParse("_2 Jan 06 15:04 MST", timeStr)
       THEN [err |-> Err("parsing time"), time |-> ""]
       ELSE [err |-> NilErr, time |-> timeStr]

\* parseRFC3659ListLine: after[k] is the entry after the first k facts of the
\* line, or the error with which the loop over the facts returned
parseRFC3659ListLine(line) ==
    LET iSemicolon == IndexOf(line, ";") - 1
        iWhitespace == IndexOf(line, " ") - 1
        fields == Split(Slice(line, 0, iWhitespace - 1).val, ";")
        fact(e, field) ==
            LET i == IndexOf(field, "=") - 1
                key == Slice(field, 0, i).val
                value == Slice(field, i + 1, Len(field)).val
            IN IF i < 1 THEN Parse(e, errUnsupportedListLine)
               ELSE IF key = "modify"
               THEN IF ~TimeParse("20060102150405", value) THEN Parse(e, Err("parsing time"))
                    ELSE Parse([e EXCEPT !.Time = value], NilErr)
               ELSE IF key = "type" /\ value \in {"dir", "cdir", "pdir"}
               THEN Parse([e EXCEPT !.Type = EntryTypeFolder], NilErr)
               ELSE IF key = "type" /\ value = "file"
               THEN Parse([e EXCEPT !.Type = EntryTypeFile], NilErr)
               ELSE IF key = "size"
               THEN Parse([e EXCEPT !.Size = ParseUint(value).val], NilErr)
               ELSE Parse(e, NilErr)
        after[k \in 0..Len(fields)] ==
            IF k = 0
            THEN Parse(Entry(Slice(line, iWhitespace + 1, Len(line)).val, EntryTypeFile, 0, ""),
                       NilErr)
            ELSE IF ~after[k - 1].err.nil THEN after[k - 1]
            ELSE fact(after[k - 1].e, fields[k])
    IN IF iSemicolon < 0 \/ iSemicolon > iWhitespace
       THEN Parse(Entry("", EntryTypeFile, 0, ""), errUnsupportedListLine)
       ELSE after[Len(fields)]

\* parseLsListLine: fields[1] is read whatever the number of fields, and so is
\* fields[7:] once fields[1] is "0"
parseLsListLine(line) ==
    LET fields == Fields(line)
        n == Len(fields)
        folder == SetTime(SubSeq(fields, 4, 6))
        fileSize == ParseUint(fields[3])
        fileTime == SetTime(SubSeq(fields, 5, 7))
        size == ParseUint(fields[5])
        time == SetTime(SubSeq(fields, 6, 8))
        type == SubSeq(fields[1], 1, 1)
        nil == Entry("", EntryTypeFile, 0, "")
    IN IF n >= 7 /\ fields[2] = "folder" /\ fields[3] = "0"
       THEN IF ~folder.err.nil THEN Parse(nil, folder.err)
            ELSE Parse(Entry(Join(SubSeq(fields, 7, n)), EntryTypeFolder, 0, folder.time), NilErr)
       ELSE IF n < 2 THEN ParsePanics
       ELSE IF fields[2] = "0"
       THEN IF n < 7 THEN ParsePanics
            ELSE IF ~fileSize.ok THEN Parse(nil, Err("parsing size"))
            ELSE IF ~fileTime.err.nil THEN Parse(nil, fileTime.err)
            ELSE Parse(Entry(Join(SubSeq(fields, 8, n)), EntryTypeFile, fileSize.val,
                             fileTime.time), NilErr)
       ELSE IF n < 9 THEN Parse(nil, errUnsupportedListLine)
       ELSE IF type \notin {"-", "d", "l"} THEN Parse(nil, Err("Unknown entry type"))
       ELSE IF type = "-" /\ ~size.ok THEN Parse(nil, Err("parsing size"))
       ELSE IF ~time.err.nil THEN Parse(nil, time.err)
       ELSE Parse(Entry(Join(SubSeq(fields, 9, n)),
                        IF type = "-" THEN EntryTypeFile
                        ELSE IF type = "d" THEN EntryTypeFolder ELSE EntryTypeLink,
                        IF type = "-" THEN size.val ELSE 0,
                        time.time), NilErr)

\* parseDirListLine: line[:len(format)] is taken whatever the length of the line
parseDirListLine(line) ==
    LET stamp == Slice(line, 0, 17)
        rest == TrimLeft(Slice(line, 17, Len(line)).val)
        space == IndexOf(rest, " ") - 1
        nil == Entry("", EntryTypeFile, 0, "")
    IN IF ~stamp.ok THEN ParsePanics
       ELSE IF /\ ~TimeParse("01-02-06  03:04PM", stamp.val)
               /\ ~TimeParse("2006-01-02  15:04", stamp.val)
       THEN Parse(nil, errUnsupportedListLine)
       ELSE IF HasPrefix(rest, "<DIR>")
       THEN Parse(Entry(TrimLeft(Slice(rest, 5, Len(rest)).val), EntryTypeFolder, 0, stamp.val),
                  NilErr)
       ELSE IF space = -1 THEN Parse(nil, errUnsupportedListLine)
       ELSE IF ~ParseUint(Slice(rest, 0, space).val).ok THEN Parse(nil, errUnsupportedListLine)
       ELSE Parse(Entry(TrimLeft(Slice(rest, space, Len(rest)).val), EntryTypeFile,
                        ParseUint(Slice(rest, 0, space).val).val, stamp.val), NilErr)

\* parseListLine: the parsers in the order of listLineParsers; the next one is
\* tried only when a parser returns errUnsupportedListLine itself
listLineParsers(line) ==
    <<parseRFC3659ListLine(line), parseLsListLine(line), parseDirListLine(line)>>
parseListLine(line) ==
    LET r == listLineParsers(line)
        tried(i) == r[i].panicked \/ r[i].err # errUnsupportedListLine
    IN IF tried(1) THEN r[1]
       ELSE IF tried(2) THEN r[2]
       ELSE IF tried(3) THEN r[3]
       ELSE Parse(Entry("", EntryTypeFile, 0, ""), errUnsupportedListLine)

\* List(path): the receive command fails with recvErr, or its stream delivers
\* lines and then ends, with the error scanErr when the read fails; scanned[k]
\* is the state of the loop after k lines
List(feats, recvErr, lines, scanErr) ==
    LET scanned[k \in 0..Len(lines)] ==
            IF k = 0 THEN [entries |-> <<>>, panicked |-> FALSE]
            ELSE IF scanned[k - 1].panicked \/ parseListLine(lines[k]).panicked
            THEN [entries |-> <<>>, panicked |-> TRUE]
            ELSE IF parseListLine(lines[k]).err.nil
            THEN [entries |-> Append(scanned[k - 1].entries, parseListLine(lines[k]).e),
                  panicked |-> FALSE]
            ELSE scanned[k - 1]
    IN IF ~recvErr.nil THEN Did(<<>>, recvErr, <<>>, feats, FALSE)
       ELSE IF scanned[Len(lines)].panicked THEN Panicked(<<>>, feats)
       ELSE IF ~scanErr.nil THEN Did(<<>>, scanErr, <<>>, feats, FALSE)
       ELSE Did(<<>>, NilErr, scanned[Len(lines)].entries, feats, FALSE)

\* Lines of a listing: empty, a single word, shorter than a date, one line of
\* each format, a DIR line of nine fields, a line of no format
Lines ==
    {"", "word", "a b",
     "type=file;size=5; f",
     "-rw-r--r-- 1 o g 5 Dec 02 2009 f",
     "01-02-06  03:04PM <DIR> d",
     "01-02-06  03:04PM <DIR> a b c d e f",
     "d [R----F--] supervisor 512 Jan 16 18:53 login"}

(***************************************************************************)
(* StorFrom with the failures of the transport, and the run of a worker of *)
(* MultipleTransfer on the control stream it opens.                        *)
(***************************************************************************)
\* What cmdDataSendStreamFrom returns: the command lines it issued, its error,
\* whether it hands a stream to its caller, and how often it closed the stream
Sending(trace, err, stream, closes) ==
    [trace |-> trace, err |-> err, stream |-> stream, closes |-> closes]

\* cmdDataSendStreamFrom(offset, format, arg): OpenUniStreamSync returns the
\* stream sid or openErr; env holds what comes of REST and of the command
cmdDataSendStreamFrom_KeepOnBadCode(offset, format, arg, sid, openErr, env) ==
    LET rest == cmd(StatusRequestFilePending, env[1])
        REST == IF NeedsRest(offset)
                THEN <<Step(Sprintf("REST %d", "%d", ToString(offset)), env[1])>> ELSE <<>>
        lines == REST \o <<Step(Sprintf(WithStreamID(format, sid), "%s", arg), env[2])>>
        r == ReadResponse(-1, env[2])
    IN IF ~openErr.nil THEN Sending(<<>>, openErr, FALSE, 0)
       ELSE IF NeedsRest(offset) /\ ~rest.err.nil THEN Sending(REST, rest.err, FALSE, 1)
       ELSE IF ~env[2].sent THEN Sending(lines, Err("write on closed stream"), FALSE, 1)
       ELSE IF ~r.err.nil THEN Sending(lines, r.err, FALSE, 1)
       ELSE IF r.code # StatusAlreadyOpen /\ r.code # StatusAboutToSend
       THEN Sending(lines, Err(ToString(r.code) \o " " \o r.msg), FALSE, 0)
       ELSE Sending(lines, NilErr, TRUE, 0)
cmdDataSendStreamFrom(offset, format, arg, sid, openErr, env) ==
    LET rest == cmd(StatusRequestFilePending, env[1])
        REST == IF NeedsRest(offset)
                THEN <<Step(Sprintf("REST %d", "%d", ToString(offset)), env[1])>> ELSE <<>>
        lines == REST \o <<Step(Sprintf(WithStreamID(format, sid), "%s", arg), env[2])>>
        r == ReadResponse(-1, env[2])
    IN IF ~openErr.nil THEN Sending(<<>>, openErr, FALSE, 0)
       ELSE IF NeedsRest(offset) /\ ~rest.err.nil THEN Sending(REST, rest.err, FALSE, 1)
       ELSE IF ~env[2].sent THEN Sending(lines, Err("write on closed stream"), FALSE, 1)
       ELSE IF ~r.err.nil THEN Sending(lines, r.err, FALSE, 1)
       ELSE IF r.code # StatusAlreadyOpen /\ r.code # StatusAboutToSend
       THEN Sending(lines, Err(ToString(r.code) \o " " \o r.msg), FALSE, 1)
       ELSE Sending(lines, NilErr, TRUE, 0)

\* StorFrom(path, r, offset): io.Copy returns copyErr, env[3] is what the read
\* of the closing reply yields. The value tells whether a send stream was
\* opened, how often it was closed, and whether the closing reply was read
SubConn_StorFrom(path, offset, feats, sid, openErr, env, copyErr) ==
    LET s == cmdDataSendStreamFrom(offset, "STOR %s", path, sid, openErr, env)
        final == ReadResponse(StatusClosingDataConnection, env[3])
        opened == openErr.nil
    IN IF ~s.err.nil
       THEN Did(s.trace, s.err, [opened |-> opened, closes |-> s.closes, final |-> FALSE],
                feats, FALSE)
       ELSE IF ~copyErr.nil
       THEN Did(s.trace, copyErr, [opened |-> opened, closes |-> s.closes + 1, final |-> FALSE],
                feats, FALSE)
       ELSE Did(s.trace, final.err, [opened |-> opened, closes |-> s.closes + 1, final |-> TRUE],
                feats, FALSE)

\* ChangeDir: CWD expecting 250
ChangeDir(path, feats, env) ==
    Did(<<Step(Sprintf("CWD %s", "%s", path), env)>>,
        cmd(StatusRequestedFileActionOK, env).err, "", feats, FALSE)

\* parallelTransfer when the first item it takes from taskChannel is a
\* sentinel: OpenStreamSync returns openErr; env holds what comes of USER, PASS,
\* TYPE, FEAT, the QUIT of Login, CWD and the QUIT of the deferred Quit. The
\* error is the reset message put on returnChannel (nil: none), the value
\* counts the calls of Close on the control stream
parallelTransfer(username, password, dirctory, openErr, env, closeErr) ==
    LET login == Login(username, password, {}, SubSeq(env, 1, 5), closeErr)
        cwd == ChangeDir(dirctory, login.features, env[6])
        deferred == Quit({}, env[7], closeErr)
        reset(err) == Err("Go routine reset. " \o err.msg)
        closes(d) == IF d.closed THEN 1 ELSE 0
    IN IF ~openErr.nil THEN Did(<<>>, reset(openErr), 0, {}, FALSE)
       ELSE IF ~login.err.nil
       THEN Did(login.trace \o deferred.trace, reset(login.err),
                closes(login) + closes(deferred), login.features, TRUE)
       ELSE IF ~cwd.err.nil
       THEN Did(login.trace \o cwd.trace \o deferred.trace, reset(cwd.err),
                closes(deferred), cwd.features, TRUE)
       ELSE Did(login.trace \o cwd.trace \o deferred.trace, NilErr,
                closes(deferred), cwd.features, TRUE)

(***************************************************************************)
(* The calls of a caller on the default sub-connection                     *)
(***************************************************************************)
\* What the transport and the server may make of a command: once the control
\* stream is closed every write fails
Outcomes(codes, msgs) ==
    IF controlStream = "open" /\ quicSession = "open"
    THEN {SendFails, ReadFails} \cup {Answer(c, m) : c \in codes, m \in msgs}
    ELSE {SendFails}
CloseErrs == {NilErr, Err("close failed")}

FeatMessages == {"Features:\n MDTM\nEnd", "Features:\n SIZE\n REST STREAM\nEnd"}

\* The state after DialTimeout, whose Feat read the reply env
Dialed(env) ==
    /\ quicSession = "open"
    /\ controlStream = "open"
    /\ features = Feat({}, env).features
    /\ call = [name |-> "Dial", args |-> <<>>, returned |-> TRUE, trace |-> Feat({}, env).trace,
               err |-> NilErr, value |-> "", panicked |-> FALSE, afterQuit |-> FALSE]
    /\ quitCalled = FALSE
    /\ featReply = env
    /\ credentials = [username |-> "", password |-> ""]

CmdInit == Dialed(Answer(StatusSystem, "Features:\nEnd"))

\* A call of the facade returns (or panics): d is what the call did
Finish(name, args, d) ==
    /\ ~call.panicked
    /\ call' = [name |-> name, args |-> args, returned |-> TRUE, trace |-> d.trace,
                err |-> d.err, value |-> d.value, panicked |-> d.panicked,
                afterQuit |-> quitCalled]
    /\ features' = d.features
    /\ controlStream' = IF d.closed THEN "closed" ELSE controlStream
    /\ quitCalled' = (quitCalled \/ \E i \in 1..Len(d.trace) : d.trace[i].line = "QUIT")
    /\ featReply' =
         IF \E i \in 1..Len(d.trace) : d.trace[i].line = "FEAT" /\ d.trace[i].env.read
         THEN d.trace[CHOOSE i \in 1..Len(d.trace) : d.trace[i].line = "FEAT"].env
         ELSE featReply
    /\ UNCHANGED <<engineVars, rdvVars, subVars, quicSession>>

\* ServerConn.Login after mainSubConn.Login returned err: the credentials the
\* connection keeps, old being the ones it had
StoreCredentials_Always(user, password, old, err) ==
    [username |-> user, password |-> password]
StoreCredentials(user, password, old, err) ==
    IF err.nil THEN [username |-> user, password |-> password] ELSE old

\* ServerConn.Login: what comes of a command matters only when the replies
\* before it let a login get that far; otherwise it is fixed (the write fails,
\* Close returns nil). The credentials are kept once mainSubConn.Login
\* returned nil
Call_Login ==
    \E user \in {"anonymous"}, password \in {"secret"},
       u \in Outcomes({StatusLoggedIn, StatusUserOK, 530}, {"login"}) :
    \E p \in IF Answered(u, StatusUserOK)
             THEN Outcomes({StatusLoggedIn, 530}, {"password"}) ELSE {SendFails} :
    \E t \in IF Answered(u, StatusLoggedIn) \/ Answered(p, StatusLoggedIn)
             THEN Outcomes({StatusCommandOK, 500}, {"type"}) ELSE {SendFails} :
    \E f \in IF Answered(t, StatusCommandOK)
             THEN Outcomes({StatusSystem, StatusNotImplemented}, FeatMessages)
             ELSE {SendFails} :
    \E q \in IF Answered(t, StatusCommandOK) /\ ~(f.sent /\ f.read)
             THEN Outcomes({221}, {"bye"}) ELSE {SendFails},
       closeErr \in IF Answered(t, StatusCommandOK) /\ ~(f.sent /\ f.read)
                    THEN CloseErrs ELSE {NilErr} :
        /\ Finish("Login", <<user, password>>,
                  Login(user, password, features, <<u, p, t, f, q>>, closeErr))
        /\ credentials' =
             StoreCredentials(user, password, credentials,
                              Login(user, password, features, <<u, p, t, f, q>>, closeErr).err)

Call_Feat ==
    \E f \in Outcomes({StatusSystem, StatusNotImplemented}, FeatMessages) :
        /\ Finish("Feat", <<>>, Feat(features, f))
        /\ UNCHANGED credentials

Call_CurrentDir ==
    \E e \in Outcomes({StatusPathCreated, 550},
                       {"\"/incoming\" is current directory", "no path", "one \" quote", "\"\""}) :
        /\ Finish("CurrentDir", <<>>, CurrentDir(features, e))
        /\ UNCHANGED credentials

Call_Rename ==
    \E from \in {"x"}, to \in {"y"},
       f \in Outcomes({StatusRequestFilePending, StatusRequestedFileActionOK, 550}, {"rnfr"}),
       t \in Outcomes({StatusRequestedFileActionOK, StatusRequestFilePending, 553}, {"rnto"}) :
        /\ Finish("Rename", <<from, to>>, Rename(from, to, features, <<f, t>>))
        /\ UNCHANGED credentials

Call_NoOp ==
    \E e \in Outcomes({StatusCommandOK, 500}, {"noop"}) :
        /\ Finish("NoOp", <<>>, SubConn_NoOp(features, e))
        /\ UNCHANGED credentials

\* ServerConn.Quit forwards to mainSubConn.Quit
Call_Quit ==
    \E e \in Outcomes({221}, {"bye"}), closeErr \in CloseErrs :
        /\ Finish("Quit", <<closeErr>>, Quit(features, e, closeErr))
        /\ UNCHANGED credentials

\* quicSession.OpenStreamSync for a further sub-connection
Call_OpenStream ==
    \E err \in IF quicSession = "open" THEN CloseErrs ELSE {Err("session closed")} :
        /\ Finish("OpenStream", <<>>, Did(<<>>, err, "", features, FALSE))
        /\ UNCHANGED credentials

\* StorFrom on the default sub-connection. What comes of a step matters only
\* when the steps before it let StorFrom get that far
Call_StorFrom ==
    \E path \in {"x"}, offset \in {0, 1}, sid \in {2},
       openErr \in {NilErr, Err("too many open streams")} :
    \E rest \in IF openErr.nil /\ NeedsRest(offset)
                THEN Outcomes({StatusRequestFilePending, 501}, {"rest"}) ELSE {SendFails} :
    \E stor \in IF openErr.nil /\ (NeedsRest(offset) => Answered(rest, StatusRequestFilePending))
                THEN Outcomes({StatusAlreadyOpen, StatusAboutToSend, StatusFileUnavailable},
                              {"stor"})
                ELSE {SendFails} :
    \E copyErr \in IF Answered(stor, StatusAlreadyOpen) \/ Answered(stor, StatusAboutToSend)
                   THEN {NilErr, Err("read failed")} ELSE {NilErr} :
    \E final \in IF (Answered(stor, StatusAlreadyOpen) \/ Answered(stor, StatusAboutToSend))
                    /\ copyErr.nil
                 THEN {ReadFails} \cup {Answer(c, "done") : c \in {StatusClosingDataConnection, 451}}
                 ELSE {ReadFails} :
        /\ Finish("StorFrom", <<path, offset>>,
                  SubConn_StorFrom(path, offset, features, sid, openErr,
                                   <<rest, stor, final>>, copyErr))
        /\ UNCHANGED credentials

\* A goroutine of MultipleTransfer runs parallelTransfer with the cached
\* credentials on a control stream of its own; nothing of the default
\* sub-connection is touched. The server or the transport may fail every
\* command of the worker; a QUIT goes out unless the stream is closed
Call_ParallelTransfer ==
    \E dirctory \in {"/incoming"},
       openErr \in IF quicSession = "open" THEN {NilErr, Err("too many open streams")}
                   ELSE {Err("session closed")} :
    \E u \in IF openErr.nil
             THEN {Answer(c, "login") : c \in {StatusLoggedIn, StatusUserOK, 530}}
             ELSE {SendFails} :
    \E p \in IF Answered(u, StatusUserOK)
             THEN {ReadFails, Answer(StatusLoggedIn, "password")} ELSE {SendFails} :
    \E t \in IF Answered(u, StatusLoggedIn) \/ Answered(p, StatusLoggedIn)
             THEN {Answer(c, "type") : c \in {StatusCommandOK, 500}} ELSE {SendFails} :
    \E f \in IF Answered(t, StatusCommandOK)
             THEN {SendFails, ReadFails, Answer(StatusSystem, "Features:\n MDTM\nEnd")}
             ELSE {SendFails} :
    \E c \in IF Answered(t, StatusCommandOK) /\ f.sent /\ f.read
             THEN {Answer(code, "cwd") : code \in {StatusRequestedFileActionOK, 550}}
             ELSE {SendFails} :
        LET failedFeat == Answered(t, StatusCommandOK) /\ ~(f.sent /\ f.read)
            env == <<u, p, t, f, IF failedFeat THEN ReadFails ELSE SendFails, c,
                     IF openErr.nil /\ ~failedFeat THEN ReadFails ELSE SendFails>>
            d == parallelTransfer(credentials.username, credentials.password, dirctory,
                                  openErr, env, NilErr)
        IN /\ ~call.panicked
           /\ call' = [name |-> "parallelTransfer",
                       args |-> <<credentials.username, credentials.password, dirctory>>,
                       returned |-> TRUE, trace |-> d.trace, err |-> d.err,
                       value |-> [opened |-> openErr.nil, closes |-> d.value],
                       panicked |-> FALSE, afterQuit |-> FALSE]
           /\ UNCHANGED <<engineVars, rdvVars, subVars, quicSession, controlStream, features,
                          quitCalled, featReply, credentials>>

\* List returns: call.args holds what the receive command returned, the lines
\* its stream delivers and the error that ends the scan; the reply read by the
\* deferred ReadResponse does not change what List returns
Call_List ==
    /\ call.name = "List" /\ ~call.returned
    /\ Finish("List", call.args, List(features, call.args[2], call.args[1], call.args[3]))
    /\ UNCHANGED credentials

\* parseListLine(call.args[1]) returns
Call_ParseListLine ==
    /\ call.name = "parseListLine" /\ ~call.returned
    /\ Finish("parseListLine", call.args,
              IF parseListLine(call.args[1]).panicked THEN Panicked(<<>>, features)
              ELSE Did(<<>>, parseListLine(call.args[1]).err, parseListLine(call.args[1]).e,
                       features, FALSE))
    /\ UNCHANGED credentials

ListNext == Call_List \/ Call_ParseListLine

CmdNext ==
    \/ Call_Login
    \/ Call_Feat
    \/ Call_CurrentDir
    \/ Call_Rename
    \/ Call_NoOp
    \/ Call_Quit
    \/ Call_OpenStream

\* Logins, transfers and workers of MultipleTransfer on one session
WorkerNext ==
    \/ Call_Login
    \/ Call_StorFrom
    \/ Call_ParallelTransfer
    \/ Call_Quit

(***************************************************************************)
(* Specifications                                                          *)
(***************************************************************************)
\* A caller runs any operations, one after the other, on one sub-connection
ConnInit ==
    /\ EngineInit /\ RdvInit /\ CmdInit
    /\ \E ops \in Scripts, f \in RemoteStates : SubInitWith(ops, [p \in RemotePaths |-> f])
ConnNext == ClientStep \/ ServerStep
ConnSpec == ConnInit /\ [][ConnNext]_vars

\* A caller stores bytes under a path and fetches them from an offset
Payloads == {"", "a", "ab", "abc"}
RoundTripInit ==
    /\ EngineInit /\ RdvInit /\ CmdInit
    /\ \E p \in RemotePaths, S \in Payloads, k \in 0..MaxOffset, f \in RemoteStates :
          /\ k <= Len(S)
          /\ SubInitWith(<<Stor(p, S, FALSE), RetrFrom(p, k)>>, [q \in RemotePaths |-> f])
RoundTripSpec == RoundTripInit /\ [][ConnNext]_vars /\ WF_vars(ConnNext)

Init == EngineInit /\ RdvInit /\ SubInit /\ CmdInit
Next == EngineNext
Spec == Init /\ [][Next]_vars

\* The goroutines and the calling thread are scheduled fairly
FairSpec == Spec /\ WF_vars(MainStep) /\ \A w \in Spawned : WF_vars(WorkerStep(w))

(***************************************************************************)
(* One task run on its own: every task, every state of the local and the   *)
(* remote files, every answer of the environment.                          *)
(***************************************************************************)
LocalStates == {Absent, File(""), File("A")}

TaskInit ==
    /\ RdvInit /\ SubInit /\ CmdInit
    /\ \E t \in TaskKinds, l \in [LocalPaths -> LocalStates], r \in [RemotePaths -> RemoteStates] :
        /\ tasks = <<t>>
        /\ nrParallel = 1
        /\ taskChannel = <<[id |-> 2, task |-> Sentinel]>>
        /\ returnChannel = <<>>
        /\ pc = [w \in Workers |-> IF w = 0 THEN "exec" ELSE "off"]
        /\ cur = [w \in Workers |-> IF w = 0 THEN [id |-> 1, task |-> t] ELSE NoItem]
        /\ res = [w \in Workers |-> NilErr]
        /\ ctlOpen = [w \in Workers |-> w = 0]
        /\ errorMessage = ""
        /\ normalReplay = 0
        /\ goRoutineResetReply = 0
        /\ mtResult = NilErr
        /\ localFS = l
        /\ remoteFS = r
        /\ took = [w \in Workers |-> IF w = 0 THEN {[id |-> 1, finished |-> FALSE]} ELSE {}]
        /\ setupEnv = [w \in Workers |-> ""]
        /\ execLog = <<<<>>>>
        /\ sent = [w \in Workers |-> <<>>]
        /\ retrSent = {}

Task_Run == \E env \in TaskEnv : Exec(0, env)

TaskNext == Task_Run
TaskSpec == TaskInit /\ [][TaskNext]_vars

\* MultipleTransfer called with as many store tasks as connections, MaxPar of
\* each: the state when the goroutines have been started. Every goroutine may fail
\* to set up its sub-connection; all threads are scheduled fairly.
ParInit ==
    /\ RdvInit /\ SubInit /\ CmdInit
    /\ \E ts \in [1..MaxPar -> {NewTransferTask(Store, "a", "x")}] :
        /\ tasks = ts
        /\ nrParallel = Clamp(MaxPar, Len(ts))
        /\ taskChannel = FillTaskChannel(ts, Clamp(MaxPar, Len(ts)))
        /\ execLog = [i \in 1..Len(ts) |-> <<>>]
    /\ returnChannel = <<>>
    /\ pc = [w \in Workers |-> IF w = 0 THEN "recv" ELSE "start"]
    /\ cur = [w \in Workers |-> NoItem]
    /\ res = [w \in Workers |-> NilErr]
    /\ ctlOpen = [w \in Workers |-> w = 0]
    /\ errorMessage = ""
    /\ normalReplay = 0
    /\ goRoutineResetReply = 0
    /\ mtResult = NilErr
    /\ localFS = [p \in LocalPaths |-> IF p = "a" THEN File("A") ELSE Absent]
    /\ remoteFS = [p \in RemotePaths |-> File("X")]
    /\ took = [w \in Workers |-> {}]
    /\ setupEnv = [w \in Workers |-> ""]
    /\ sent = [w \in Workers |-> <<>>]
    /\ retrSent = {}
ParNext == MainStep \/ \E w \in Spawned : WorkerStep(w)
ParSpec ==
    ParInit /\ [][ParNext]_vars
    /\ WF_vars(MainStep) /\ \A w \in Spawned : WF_vars(WorkerStep(w))

\* The sub-connections of one session run data commands concurrently
RdvSpecInit == EngineInit /\ RdvInit /\ SubInit /\ CmdInit
RdvNext == \E s \in Subs : SubStep(s)
RdvSpec == RdvSpecInit /\ [][RdvNext]_vars

\* A caller issues any commands on the default sub-connection of a session
\* that DialTimeout returned
CmdSpecInit ==
    /\ EngineInit /\ RdvInit /\ SubInit
    /\ \E c \in {StatusSystem, StatusNotImplemented}, m \in FeatMessages : Dialed(Answer(c, m))
CmdSpec == CmdSpecInit /\ [][CmdNext]_vars

\* The session after DialTimeout, or after DialTimeout and a Login as admin
\* that succeeded
WorkerSpecInit ==
    /\ EngineInit /\ RdvInit /\ SubInit
    /\ quicSession = "open"
    /\ controlStream = "open"
    /\ quitCalled = FALSE
    /\ \E m \in FeatMessages :
        LET dial == Feat({}, Answer(StatusSystem, m))
            login == Login("admin", "root", dial.features,
                           <<Answer(StatusUserOK, "login"), Answer(StatusLoggedIn, "password"),
                             Answer(StatusCommandOK, "type"), Answer(StatusSystem, m),
                             SendFails>>, NilErr)
        IN /\ features = dial.features
           /\ featReply = Answer(StatusSystem, m)
           /\ \/ /\ credentials = [username |-> "", password |-> ""]
                 /\ call = [name |-> "Dial", args |-> <<>>, returned |-> TRUE,
                            trace |-> dial.trace, err |-> NilErr, value |-> "",
                            panicked |-> FALSE, afterQuit |-> FALSE]
              \/ /\ credentials = [username |-> "admin", password |-> "root"]
                 /\ call = [name |-> "Login", args |-> <<"admin", "root">>, returned |-> TRUE,
                            trace |-> login.trace, err |-> NilErr, value |-> "",
                            panicked |-> FALSE, afterQuit |-> FALSE]
WorkerSpec == WorkerSpecInit /\ [][WorkerNext]_vars

\* List and parseListLine applied to every listing and every line of the model
ListSpecInit ==
    /\ EngineInit /\ RdvInit /\ SubInit
    /\ quicSession = "open"
    /\ controlStream = "open"
    /\ features = {}
    /\ quitCalled = FALSE
    /\ featReply = Answer(StatusSystem, "Features:\nEnd")
    /\ credentials = [username |-> "", password |-> ""]
    /\ \E name \in {"List", "parseListLine"},
          lines \in UNION {[1..n -> Lines] : n \in 0..MaxLines},
          recvErr \in {NilErr, Err("550 no such directory")},
          scanErr \in {NilErr, Err("read failed")} :
            \* a call that has not returned yet, with its arguments
            /\ name = "parseListLine" => Len(lines) = 1 /\ recvErr.nil /\ scanErr.nil
            /\ call = [name |-> name,
                       args |-> IF name = "List" THEN <<lines, recvErr, scanErr>> ELSE lines,
                       returned |-> FALSE, trace |-> <<>>, err |-> NilErr, value |-> "",
                       panicked |-> FALSE, afterQuit |-> FALSE]
ListSpec == ListSpecInit /\ [][ListNext]_vars

(***************************************************************************)
(* Properties of the parallel transfer engine                              *)
(***************************************************************************)
Started == pc[0] \notin {"idle", "returnedEarly"}
Returned == pc[0] = "returned"
\* A worker's open, Login or ChangeDir failed
SetupFailed(w) == setupEnv[w] \notin {"", "ok"}
NoReset == \A w \in Spawned : ~SetupFailed(w)
\* All the results the workers have put on returnChannel so far
Emitted == UNION {{sent[w][i] : i \in 1..Len(sent[w])} : w \in Workers}
\* Every queue item seen so far: still queued, or dequeued by some worker
QueuedItems == {[id |-> taskChannel[i].id, finished |-> taskChannel[i].task.finished] :
                   i \in 1..Len(taskChannel)}
TakenItems == UNION {took[w] : w \in Workers}
TookCount == Cardinality(TakenItems)

\* C1: for T >= 1 tasks and a parallelism N >= 1 or N < 0 (so that the clamped
\* nrParallel is at least 1), when no worker's open, Login or ChangeDir fails,
\* MultipleTransfer eventually returns (every transfer of the model completes,
\* with or without an error), and when it has returned every task has been
\* executed exactly once, by exactly one worker.
C1_ReturnsAndEachTaskOnce ==
    /\ [](Returned /\ NoReset => \A i \in 1..Len(tasks) : Len(execLog[i]) = 1)
    /\ (Started /\ Len(tasks) >= 1 /\ nrParallel >= 1) ~> (Returned \/ ~NoReset)

\* Two tasks run by two workers, one each, and MultipleTransfer has returned
C1_Witness ==
    /\ Returned /\ NoReset
    /\ Len(tasks) = 2 /\ nrParallel = 2
    /\ execLog[1] = <<0>> /\ execLog[2] = <<1>>

\* C2: the step with which MultipleTransfer returns gives nil iff every result
\* the workers emitted before it was nil, and otherwise an error whose message
\* contains the message of every non-nil result emitted.
C2_ResultAggregatesEveryReply ==
    [][(pc[0] = "collect" /\ pc'[0] = "returned") =>
         /\ mtResult'.nil <=> \A r \in Emitted : r.nil
         /\ \A r \in Emitted : ~r.nil => Contains(mtResult'.msg, r.msg)]_vars

\* C7: once the queue is filled it holds T + N items, T with finished = false
\* and N with finished = true; from then on every item is either still queued
\* or was dequeued by exactly one worker, and no worker has dequeued two
\* finishing messages.
C7_QueueItems ==
    Started =>
      /\ Cardinality(QueuedItems \cup TakenItems) = Len(tasks) + nrParallel
      /\ Cardinality({x \in QueuedItems \cup TakenItems : ~x.finished}) = Len(tasks)
      /\ Cardinality({x \in QueuedItems \cup TakenItems : x.finished}) = nrParallel
      /\ Cardinality(QueuedItems) = Len(taskChannel)
      /\ QueuedItems \cap TakenItems = {}
      /\ \A v, w \in Workers : v # w => took[v] \cap took[w] = {}
      /\ \A w \in Workers : Cardinality({x \in took[w] : x.finished}) <= 1

\* The queue of two tasks and two finishing messages is drained, each worker
\* having taken one of the finishing messages
C7_Witness ==
    /\ Started /\ Len(tasks) = 2 /\ nrParallel = 2
    /\ taskChannel = <<>>
    /\ TookCount = 4
    /\ \A w \in 0..(nrParallel - 1) : Cardinality({x \in took[w] : x.finished}) = 1

C9_ExistingFileKept ==
    [][(/\ pc[0] = "exec" /\ pc'[0] = "send"
        /\ cur[0].task.direction = Retrieve
        /\ localFS[cur[0].task.localpath].exists) =>
         /\ res'[0] = Err("File with this name already exists in local folder.")
         /\ localFS' = localFS
         /\ cur[0].id \notin retrSent']_vars

(***************************************************************************)
(* Properties of the receive rendezvous                                    *)
(***************************************************************************)
HandedIDs == {handed[i].sid : i \in 1..Len(handed)}

\* C3: every stream a receive command obtained from the rendezvous is an
\* accepted stream whose ID leaves the remainder 3 modulo 4 and is the ID the
\* server wrote into the 125/150 reply the command read; no stream was handed
\* out twice, and a stream that was handed out is no longer in the map
\* dataRetriveStreams.
C3_StreamIsTheAnnouncedOne ==
    /\ \A i \in 1..Len(handed) :
          /\ handed[i].sid % 4 = 3
          /\ handed[i].sid = handed[i].announced
          /\ handed[i].sid \in accepted
    /\ \A i, j \in 1..Len(handed) : i # j => handed[i].sid # handed[j].sid
    /\ \A e \in dataRetriveStreams : e.sid \notin HandedIDs /\ e.key \notin HandedIDs

\* Two sub-connections obtained their streams, the one with the smaller ID
\* last, and the server has since announced the ID of a stream that was handed
\* out before to a command that now waits for it
C3_Witness ==
    /\ Len(handed) = 2
    /\ handed[1].sub # handed[2].sub
    /\ handed[1].sid > handed[2].sid
    /\ \E s \in Subs : rpc[s] = "accept" /\ streamID[s] \in HandedIDs

\* C5: with a server that announces exactly the streams it opens and a
\* transport that reports no error, no receive command returns an error, in
\* whatever order the streams of concurrent commands are accepted.
C5_ConcurrentReceivesSucceed ==
    (honest /\ ~acceptFailed) =>
        \A s \in Subs : (rpc[s] = "done" /\ rkind[s] = "RETR") => ret[s].err = ""

\* C6: while a sub-connection is inside AcceptUniStream it does not hold
\* structAccessMutex.
C6_MutexFreeDuringAccept ==
    \A s \in Subs : rpc[s] = "accept" => structAccessMutex # s

(***************************************************************************)
(* Properties of one sub-connection                                        *)
(***************************************************************************)
\* C4: whenever the sub-connection sends a command, the 226 reply of every
\* transfer that has completed on it before has been read.
C4_Reply226ReadBeforeNextCommand ==
    [][Len(cmdLog') > Len(cmdLog) => completed \subseteq read226]_vars

RoundTripDone == cpc = "idle" /\ program = <<>> /\ Len(results) = 2

\* C10: Stor(p, S) followed by RetrFrom(p, k) with 0 <= k <= |S|, run against a
\* server that stores what it receives and serves a file from the offset of
\* the last REST: both operations end, both without an error, and the reader
\* of RetrFrom delivers S without its first k bytes.
C10_RetrFromYieldsSuffix ==
    /\ [](RoundTripDone =>
            /\ results[1].err = ""
            /\ results[2].err = ""
            /\ Len(results[2].data) = Len(script[1].bytes) - script[2].offset
            /\ \A i \in 1..Len(results[2].data) :
                  SubSeq(results[2].data, i, i) =
                     SubSeq(script[1].bytes, script[2].offset + i, script[2].offset + i))
    /\ <>RoundTripDone

\* "abc" was stored over an existing file and fetched from offset 2
C10_Witness ==
    /\ RoundTripDone
    /\ script[1].bytes = "abc" /\ script[2].offset = 2
    /\ results[2] = Returns("", "c")
    /\ cmdLog = <<"STOR 2 x", "REST 2", "RETR x">>

(***************************************************************************)
(* Properties of the single commands                                       *)
(***************************************************************************)
\* The command lines of the last call, in the order they were written
CallLines == [i \in 1..Len(call.trace) |-> call.trace[i].line]
\* The reply the i-th command of the last call was answered with has this code
ReplyIs(i, code) == i <= Len(call.trace) /\ Answered(call.trace[i].env, code)
\* The calls that go through cmd
CmdCalls == {"Login", "Feat", "CurrentDir", "Rename", "NoOp"}

\* C11: once the facade's Quit has returned, the QUIC session is closed, and a
\* stream opened on the session after a Quit fails.
C11_QuitClosesSession ==
    /\ call.name = "Quit" => quicSession = "closed"
    /\ call.name = "OpenStream" /\ call.afterQuit => ~call.err.nil

C13_LoginSequence ==
    call.name = "Login" =>
        LET USER == "USER " \o call.args[1]
            PASS == "PASS " \o call.args[2]
            authenticated == ReplyIs(1, StatusLoggedIn)
                             \/ (ReplyIs(1, StatusUserOK) /\ ReplyIs(2, StatusLoggedIn))
            full == IF ReplyIs(1, StatusUserOK) THEN <<USER, PASS, "TYPE I", "FEAT">>
                    ELSE <<USER, "TYPE I", "FEAT">>
        IN /\ Len(CallLines) >= 1 /\ CallLines[1] = USER
           /\ (\E i \in 1..Len(CallLines) : CallLines[i] = PASS) <=> ReplyIs(1, StatusUserOK)
           /\ \A i \in 1..Len(CallLines) :
                 \/ i <= Len(full) /\ CallLines[i] = full[i]
                 \/ i = Len(CallLines) /\ CallLines[i] = "QUIT"
           /\ (\E i \in 1..Len(CallLines) : CallLines[i] \in {"TYPE I", "FEAT"}) => authenticated
           /\ ~authenticated => ~call.err.nil
           /\ call.err.nil =>
                 /\ CallLines = full
                 /\ ReplyIs(Len(full) - 1, StatusCommandOK)
                 /\ call.trace[Len(full)].env.read

\* Login with a password: USER 331, PASS 230, TYPE I 200, FEAT 211, result nil
C13_Witness ==
    /\ call.name = "Login" /\ call.err.nil
    /\ CallLines = <<"USER anonymous", "PASS secret", "TYPE I", "FEAT">>
    /\ ReplyIs(1, StatusUserOK) /\ ReplyIs(2, StatusLoggedIn)
    /\ ReplyIs(3, StatusCommandOK) /\ ReplyIs(4, StatusSystem)

\* C14: the features map holds exactly the features of the most recent FEAT
\* reply: the lines of a 211 reply, and nothing after any other reply.
C14_FeaturesAreLatestReply ==
    features = IF featReply.code = StatusSystem
               THEN FeatLines({}, Split(featReply.msg, "\n"))
               ELSE {}

\* C15: Feat returns an error only when FEAT could not be written or its reply
\* could not be read; with a reply of any code other than 211 it returns nil.
C15_FeatErrorOnlyFromTransport ==
    call.name = "Feat" =>
        /\ CallLines = <<"FEAT">>
        /\ ~call.err.nil => ~(call.trace[1].env.sent /\ call.trace[1].env.read)
        /\ (call.trace[1].env.read /\ call.trace[1].env.code # StatusSystem) => call.err.nil

\* Feat was answered 502 and returned nil
C15_Witness ==
    /\ call.name = "Feat"
    /\ ReplyIs(1, StatusNotImplemented)
    /\ call.err.nil

\* C16: with a 257 reply CurrentDir returns the text between the first and the
\* last double quote of the message, and a format error when the message has no
\* double quote; with a reply of another code it returns an error.
C16_CurrentDirBetweenQuotes ==
    (call.name = "CurrentDir" /\ call.trace[1].env.read) =>
        LET msg == call.trace[1].env.msg
            first == IndexOf(msg, "\"")
            last == LastIndexOf(msg, "\"")
        IN IF ~ReplyIs(1, StatusPathCreated) THEN ~call.err.nil /\ ~call.panicked
           ELSE IF first = 0
           THEN ~call.panicked /\ call.err = Err("Unsuported PWD response format")
           ELSE /\ ~call.panicked
                /\ call.err.nil
                /\ call.value = IF last > first + 1 THEN SubSeq(msg, first + 1, last - 1) ELSE ""

\* C17: Rename writes RNFR first; RNTO is written iff RNFR was answered 350;
\* a rejected RNFR gives an error; Rename returns nil iff RNFR was answered 350
\* and RNTO was answered 250.
C17_RenameSequence ==
    call.name = "Rename" =>
        /\ Len(CallLines) \in {1, 2}
        /\ CallLines[1] = "RNFR " \o call.args[1]
        /\ Len(CallLines) = 2 <=> ReplyIs(1, StatusRequestFilePending)
        /\ Len(CallLines) = 2 => CallLines[2] = "RNTO " \o call.args[2]
        /\ ~ReplyIs(1, StatusRequestFilePending) => ~call.err.nil
        /\ call.err.nil <=>
              ReplyIs(1, StatusRequestFilePending) /\ ReplyIs(2, StatusRequestedFileActionOK)

\* Rename answered 350 and 250 returned nil
C17_Witness ==
    /\ call.name = "Rename" /\ call.err.nil
    /\ CallLines = <<"RNFR x", "RNTO y">>
    /\ ReplyIs(1, StatusRequestFilePending) /\ ReplyIs(2, StatusRequestedFileActionOK)

\* C18: when the receive command and the scan succeed, List returns (it does
\* not abort), without an error, and its entries are the entries of the lines
\* that parseListLine accepts, in the order of the lines.
C18_ListDropsUnparsableLines ==
    (call.name = "List" /\ call.returned /\ call.args[2].nil /\ call.args[3].nil) =>
        LET lines == call.args[1]
            kept[i \in 0..Len(lines)] ==
                IF i = 0 THEN <<>>
                ELSE IF ~parseListLine(lines[i]).panicked /\ parseListLine(lines[i]).err.nil
                THEN Append(kept[i - 1], parseListLine(lines[i]).e)
                ELSE kept[i - 1]
        IN /\ ~call.panicked
           /\ call.err.nil
           /\ call.value = kept[Len(lines)]

\* C19: parseListLine returns (it does not abort); its result is the result of
\* the first of the parsers RFC 3659, ls, DIR that does not report
\* errUnsupportedListLine, and errUnsupportedListLine when all three report
\* it; the ls parser reports errUnsupportedListLine for a line of nine or more
\* fields whose first character is none of '-', 'd', 'l'.
C19_FirstSupportingParser ==
    (call.name = "parseListLine" /\ call.returned) =>
        LET line == call.args[1]
            r == listLineParsers(line)
            unsupported(i) == ~r[i].panicked /\ r[i].err = errUnsupportedListLine
            result == [e |-> call.value, err |-> call.err, panicked |-> FALSE]
            lsRefuses == /\ Len(Fields(line)) >= 9
                         /\ Fields(line)[2] \notin {"0", "folder"}
                         /\ SubSeq(line, 1, 1) \notin {"-", "d", "l", " "}
        IN /\ ~call.panicked
           /\ lsRefuses => r[2].err = errUnsupportedListLine
           /\ IF ~unsupported(1) THEN result = r[1]
              ELSE IF ~unsupported(2) THEN result = r[2]
              ELSE IF ~unsupported(3) THEN result = r[3]
              ELSE ~call.err.nil

\* C20: after Quit the control stream is closed, and the result of Quit is the
\* error of closing the control stream, whatever came of writing QUIT.
C20_QuitClosesAndReturnsCloseError ==
    call.name = "Quit" =>
        /\ controlStream = "closed"
        /\ call.err = call.args[1]

\* QUIT could not be written on an open control stream; Quit closed the stream
\* and returned nil
C20_Witness ==
    /\ call.name = "Quit" /\ ~call.afterQuit
    /\ CallLines = <<"QUIT">>
    /\ ~call.trace[1].env.sent
    /\ controlStream = "closed"
    /\ call.err.nil


(***************************************************************************)
(* Properties of the result collector and of termination                   *)
(***************************************************************************)
\* C21: in every iteration of the collector the reply it reads is counted as a
\* reset reply exactly when its message begins with "Go routine reset.", and
\* as a per-task reply otherwise; the collector stops reading only when the
\* per-task counter has reached |tasks| or the reset counter has reached N.
C21_ResetRepliesTalliedApart ==
    [][/\ (pc[0] = "collect" /\ Len(returnChannel') < Len(returnChannel)) =>
            LET replay == Head(returnChannel)
                isReset == ~replay.nil /\ HasPrefix(replay.msg, "Go routine reset.")
            IN /\ goRoutineResetReply' = goRoutineResetReply + (IF isReset THEN 1 ELSE 0)
               /\ normalReplay' = normalReplay + (IF isReset THEN 0 ELSE 1)
       /\ (pc[0] = "collect" /\ pc'[0] = "returned") =>
            (normalReplay >= Len(tasks) \/ goRoutineResetReply >= nrParallel)]_vars

\* C22: MultipleTransfer called with T >= 1 tasks and running N >= 2
\* connections eventually returns, whichever goroutines reset and whenever.
C22_CallerReturns ==
    (Started /\ Len(tasks) >= 1 /\ nrParallel >= 2) ~> Returned

\* C23: every goroutine MultipleTransfer has started eventually exits, also
\* when goroutines emit reset results.
C23_WorkersExit ==
    \A w \in Spawned : (pc[w] = "start") ~> (pc[w] = "exited")

\* C24: whatever the task list and the requested parallelism, the task loop of
\* the calling thread has a finishing message to stop on: while the calling
\* thread waits for a task, a finishing message is in the task queue.
C24_TaskLoopFindsSentinel ==
    pc[0] = "recv" => \E i \in 1..Len(taskChannel) : taskChannel[i].task.finished


(***************************************************************************)
(* Further properties of the receive rendezvous                            *)
(***************************************************************************)
\* C25: while a sub-connection waits in AcceptUniStream for its announced
\* stream, any other sub-connection that is free to start a command can open
\* a send stream, and any other sub-connection whose announced stream is
\* already filed in dataRetriveStreams can claim it, without waiting.
C25_OthersProceedDuringAccept ==
    \A s, t \in Subs : (s # t /\ rpc[s] = "accept") =>
        /\ (rpc[t] = "idle" /\ cmdCount < MaxCmds) => ENABLED Sub_SendCmd(t)
        /\ (rpc[t] = "lock" /\ MapHas(dataRetriveStreams, streamID[t])) => ENABLED Sub_Lock(t)

\* C26: the rendezvous for the announced ID S. On entry, when S is in
\* dataRetriveStreams the stream is removed from the map and returned and
\* nothing is accepted; otherwise the sub-connection goes on to accept. Streams
\* are accepted one at a time: one with the ID S is returned (and not left in
\* the map), one with a smaller ID is filed under its ID and the loop goes on
\* accepting, one with a greater ID ends the rendezvous with the error "Could
\* not get wanted stream.".
C26_RendezvousSteps ==
    [][\A s \in Subs :
        /\ (rpc[s] = "lock" /\ rpc'[s] # "lock") =>
              IF \E e \in dataRetriveStreams : e.key = streamID[s]
              THEN /\ rpc'[s] = "done"
                   /\ \E e \in dataRetriveStreams :
                         /\ e.key = streamID[s]
                         /\ ret'[s] = Ok(e.sid)
                         /\ dataRetriveStreams' = dataRetriveStreams \ {e}
                   /\ accepted' = accepted /\ incoming' = incoming
              ELSE /\ rpc'[s] = "accept"
                   /\ dataRetriveStreams' = dataRetriveStreams
                   /\ accepted' = accepted /\ incoming' = incoming
        /\ (rpc[s] = "accept" /\ accepted' # accepted) =>
              \E sid \in incoming :
                 /\ incoming' = incoming \ {sid}
                 /\ accepted' = accepted \cup {sid}
                 /\ IF sid = streamID[s]
                    THEN /\ rpc'[s] = "done" /\ ret'[s] = Ok(sid)
                         /\ dataRetriveStreams' = dataRetriveStreams
                    ELSE IF sid < streamID[s]
                    THEN /\ rpc'[s] = "accept"
                         /\ dataRetriveStreams' =
                               dataRetriveStreams \cup {[key |-> sid, sid |-> sid]}
                    ELSE /\ rpc'[s] = "done"
                         /\ ret'[s] = Failed("Could not get wanted stream.")]_vars

\* A sub-connection waiting for stream 7 accepted stream 3 first, which was
\* filed, and then stream 7, which it returned
C26_Witness ==
    \E s \in Subs :
        /\ rpc[s] = "done" /\ ret[s] = Ok(7)
        /\ accepted = {3, 7}
        /\ [key |-> 3, sid |-> 3] \in dataRetriveStreams

\* C27: every stream AcceptUniStream has returned was either handed to exactly
\* one command or is in dataRetriveStreams under its own ID (never both, never
\* neither); a sub-connection that enters the rendezvous for an ID that is in
\* the map obtains that stream without accepting.
C27_NoAcceptedStreamLost ==
    /\ \A sid \in accepted :
          LET claims == {i \in 1..Len(handed) : handed[i].sid = sid}
              filed == [key |-> sid, sid |-> sid] \in dataRetriveStreams
          IN /\ Cardinality(claims) <= 1
             /\ (Cardinality(claims) = 1) # filed
    /\ \A e \in dataRetriveStreams : e.key = e.sid /\ e.sid \in accepted
    /\ \A s \in Subs : rpc[s] = "accept" => ~MapHas(dataRetriveStreams, streamID[s])

\* A rendezvous for stream 3 has ended with the lost-stream error after stream
\* 7 was accepted; stream 7 is in the map, and the sub-connection it was
\* announced to has obtained it while nothing else was accepted
C27_Witness ==
    \E s, t \in Subs :
        /\ rpc[s] = "done" /\ ret[s] = Failed("Could not get wanted stream.")
        /\ rpc[t] = "done" /\ ret[t] = Ok(7) /\ streamID[t] = 7
        /\ accepted = {7}
        /\ dataRetriveStreams = {}

\* C28: when a receive command reads a reply whose code is neither 125 nor
\* 150, whose message has no blank after a first word, or whose first word is
\* not a non-negative integer that leaves the remainder 3 modulo 4, the
\* command returns an error at once: it does not enter the rendezvous, nothing
\* is accepted and dataRetriveStreams is unchanged.
C28_BadReplyEndsBeforeRendezvous ==
    [][\A s \in Subs :
        (rpc[s] = "sent" /\ rkind[s] = "RETR" /\ rpc'[s] # "sent") =>
            LET reply == Head(ctrl[s])
                word == SplitN2(reply.msg)[1]
                bad == \/ reply.code \notin {125, 150}
                       \/ IndexBlank(reply.msg) = 0
                       \/ ~ParseInt(word).ok
                       \/ ParseInt(word).val < 0
                       \/ ParseInt(word).val % 4 # 3
            IN bad => /\ rpc'[s] = "done"
                      /\ ret'[s].err # "" /\ ret'[s].sid = NoStream
                      /\ accepted' = accepted
                      /\ incoming' = incoming
                      /\ dataRetriveStreams' = dataRetriveStreams
                      /\ structAccessMutex' = structAccessMutex]_vars

\* A receive command answered "125 5 Opening data stream." has returned the
\* error for an invalid stream ID while a stream waits to be accepted
C28_Witness ==
    \E s \in Subs :
        /\ rpc[s] = "done" /\ rkind[s] = "RETR"
        /\ ret[s] = Failed("Stream ID has not a valid value for a unidirectional stream from the server.")
        /\ incoming # {}
        /\ accepted = {}


(***************************************************************************)
(* Further properties of one sub-connection                                *)
(***************************************************************************)
\* The command line a step of the caller has just sent
LineSent == cmdLog'[Len(cmdLog')]

\* C29: a data command (receive or send) sends REST iff its offset is greater
\* than 0, and then REST is the first command it sends; the transfer command is
\* sent either first, by a command with offset 0, or right after REST when the
\* reply read for REST has the code 350; when the reply read for REST has
\* another code the command returns an error and sends nothing more.
C29_RestBeforeTransfer ==
    [][/\ (cpc = "idle" /\ cpc' # "idle") =>
             /\ Len(cmdLog') = Len(cmdLog) + 1
             /\ IF op'.offset > 0
                THEN LineSent = "REST " \o ToString(op'.offset)
                ELSE HasPrefix(LineSent, op'.kind \o " ")
       /\ (Len(cmdLog') > Len(cmdLog) /\ ~HasPrefix(LineSent, "REST ")) =>
             /\ HasPrefix(LineSent, op'.kind \o " ")
             /\ \/ cpc = "idle" /\ op'.offset = 0
                \/ /\ cpc = "rest" /\ op' = op /\ op.offset > 0
                   /\ Head(controlIn).code = 350
                   /\ cmdLog[Len(cmdLog)] = "REST " \o ToString(op.offset)
       /\ (cpc = "rest" /\ cpc' # "rest" /\ Head(controlIn).code # 350) =>
             /\ cmdLog' = cmdLog
             /\ cpc' = "idle"
             /\ results'[Len(results')].err # ""]_vars

\* A send command with offset 1 read a reply other than 350 for its REST and
\* returned an error without sending STOR; the next command, a receive command
\* with offset 1, read 350 for its REST and then sent RETR
C29_Witness ==
    /\ Len(cmdLog) >= 3
    /\ SubSeq(cmdLog, Len(cmdLog) - 2, Len(cmdLog)) = <<"REST 1", "REST 1", "RETR x">>
    /\ op = RetrFrom("x", 1)
    /\ results[Len(results)].err # ""

\* C30: a send command opens its send stream when it starts, before it sends
\* any command; its STOR line is "STOR", the ID of that stream, the path, each
\* separated by one blank; bytes are written to the stream only in the step
\* that reads a 125 or 150 reply to STOR.
C30_StorCarriesStreamID ==
    [][/\ (cpc = "idle" /\ cpc' # "idle" /\ op'.kind = "STOR") =>
             /\ sendStream' = [sid |-> nextSendStream, data |-> "", closed |-> FALSE]
             /\ nextSendStream' > nextSendStream
       /\ (Len(cmdLog') > Len(cmdLog) /\ op'.kind = "STOR") =>
             /\ sendStream'.sid # 0 /\ ~sendStream'.closed /\ sendStream'.data = ""
             /\ cpc # "idle" => sendStream' = sendStream
             /\ HasPrefix(LineSent, "STOR ") =>
                   LineSent = "STOR " \o ToString(sendStream'.sid) \o " " \o op'.path
       /\ (sendStream'.data # sendStream.data /\ sendStream'.data # "") =>
             /\ cpc = "reply" /\ op.kind = "STOR"
             /\ cmdLog[Len(cmdLog)] = "STOR " \o ToString(sendStream.sid) \o " " \o op.path
             /\ Head(controlIn).code \in {125, 150}]_vars

\* The second send command of a caller, on stream 6 after REST 1, has written
\* its byte to the stream
C30_Witness ==
    /\ op = StorFrom("x", "e", FALSE, 1)
    /\ Len(cmdLog) >= 2
    /\ SubSeq(cmdLog, Len(cmdLog) - 1, Len(cmdLog)) = <<"REST 1", "STOR 6 x">>
    /\ sendStream = [sid |-> 6, data |-> "e", closed |-> TRUE]


(***************************************************************************)
(* Properties of the commands, continued                                   *)
(***************************************************************************)
\* C39: whatever the message of the 257 reply, CurrentDir returns (a path or
\* an error) and never aborts the program
C39_CurrentDirNeverAborts ==
    (call.name = "CurrentDir" /\ call.trace[1].env.read
        /\ call.trace[1].env.code = StatusPathCreated) => ~call.panicked


(***************************************************************************)
(* Properties of StorFrom, of the workers' control streams and of the      *)
(* cached credentials                                                      *)
(***************************************************************************)
\* C31: when StorFrom returns, the send stream it opened has been closed
\* exactly once, whatever the path: REST rejected, the command not sent, the
\* reply not read, a preliminary code other than 125 and 150, the copy of the
\* payload failed, success. Without a stream nothing is closed.
C31_SendStreamClosedOnce ==
    call.name = "StorFrom" =>
        call.value.closes = (IF call.value.opened THEN 1 ELSE 0)

\* StorFrom returned after the server rejected REST
C31_Witness ==
    /\ call.name = "StorFrom"
    /\ call.value.opened
    /\ Len(call.trace) = 1
    /\ call.trace[1].line = "REST 1"
    /\ Answered(call.trace[1].env, 501)
    /\ ~call.err.nil
    /\ call.value.closes = 1

\* The calls of Quit a worker made on its control stream
WorkerQuits == {i \in 1..Len(call.trace) : call.trace[i].line = "QUIT"}

\* C37: a worker of MultipleTransfer that opened a control stream issues QUIT
\* and closes the stream exactly once when it exits, whether its login failed,
\* its CWD failed or it received a sentinel
C37_WorkerQuitsOnce ==
    (call.name = "parallelTransfer" /\ call.value.opened) =>
        /\ Cardinality(WorkerQuits) = 1
        /\ call.value.closes = 1

\* C38: the cached credentials change only when a Login of the facade
\* succeeds, and then to the arguments of that Login; a Login that fails leaves
\* them as they were; a worker of MultipleTransfer logs in with the cached
\* credentials, that is with those of the most recent successful Login
C38_CredentialsFollowLogin ==
    [][/\ credentials' # credentials =>
            /\ call'.name = "Login" /\ call'.err.nil
            /\ credentials' = [username |-> call'.args[1], password |-> call'.args[2]]
       /\ (call'.name = "Login" /\ call' # call) =>
            credentials' = IF call'.err.nil
                           THEN [username |-> call'.args[1], password |-> call'.args[2]]
                           ELSE credentials
       /\ (call'.name = "parallelTransfer" /\ call'.value.opened) =>
            /\ call'.trace[1].line = "USER " \o credentials.username
            /\ \A i \in 1..Len(call'.trace) :
                 HasPrefix(call'.trace[i].line, "PASS") =>
                    call'.trace[i].line = "PASS " \o credentials.password]_vars

\* A worker logged in with the credentials of a Login that succeeded after the
\* connection had been used
C38_Witness ==
    /\ call.name = "parallelTransfer"
    /\ credentials = [username |-> "anonymous", password |-> "secret"]
    /\ Len(call.trace) >= 2
    /\ call.trace[1].line = "USER anonymous"
    /\ call.trace[2].line = "PASS secret"
    /\ Answered(call.trace[2].env, StatusLoggedIn)


\* C32: a reply that a data operation reads from the control stream is a
\* reply to a command of that operation: StorFrom, RetrFrom with the Close of
\* its reader and NameList leave no reply of theirs unread when they return
C32_RepliesReadByTheirOperation ==
    [][Len(controlIn') < Len(controlIn) => Head(controlIn).xfer = opIndex]_vars


(***************************************************************************)
(* Properties of the workers of MultipleTransfer                           *)
(***************************************************************************)
\* The workers that have a task in hand
Processing == {w \in Workers : pc[w] \in {"exec", "send"}}

\* C33: MultipleTransfer with the parallelism N >= 1 (after the clamp) starts
\* exactly N-1 goroutines; each of them takes tasks only after it has opened a
\* control stream of its own and logged in on it; the calling thread works on
\* the default sub-connection, which stays open, without a login of its own;
\* never more than N workers have a task in hand
C33_WorkersStarted ==
    (Started /\ nrParallel >= 1) =>
        /\ Cardinality({w \in Spawned : pc[w] # "off"}) = nrParallel - 1
        /\ \A w \in Spawned : took[w] # {} => setupEnv[w] = "ok"
        /\ \A w \in Spawned : pc[w] \in {"exec", "send"} => ctlOpen[w]
        /\ setupEnv[0] = "" /\ ctlOpen[0]
        /\ Cardinality(Processing) <= nrParallel

\* With N = 2 of the MaxPar connections, the calling thread and the one
\* goroutine have a task in hand at the same time
C33_Witness ==
    /\ nrParallel = 2
    /\ Processing = {0, 1}
    /\ setupEnv[1] = "ok"
    /\ pc[2] = "off"

\* C35: a thread that opens a stream on the session holds the mutex of the
\* session while it does: the goroutines of MultipleTransfer that open their
\* control stream as well as the openers of send streams
C35_StreamsOpenedUnderMutex ==
    [][\A w \in Spawned :
          (pc[w] = "start" /\ pc'[w] # "start") => structAccessMutex # 0]_vars

\* C36: in taskChannel no finishing message stands before a task, so a worker
\* that has taken a finishing message leaves no task behind: every task has
\* been taken by some worker by then
C36_SentinelsAfterTasks ==
    /\ \A i, j \in 1..Len(taskChannel) :
          (i < j /\ taskChannel[i].task.finished) => taskChannel[j].task.finished
    /\ \A w \in Workers :
          (\E it \in took[w] : it.finished) =>
             \A i \in 1..Len(tasks) : [id |-> i, finished |-> FALSE] \in TakenItems

\* A goroutine has left its loop on a finishing message after two workers
\* shared the tasks
C36_Witness ==
    /\ Len(tasks) = 2
    /\ pc[1] = "exited"
    /\ \E it \in took[1] : it.finished
    /\ \E it \in took[0] : ~it.finished
    /\ \E it \in took[1] : ~it.finished


\* C34: a control stream is used by one worker only, which sends a command
\* and reads its reply before it sends the next one: on the control stream of
\* a sub-connection at most one command is in flight, the server never has
\* two commands to read
C34_OneCommandInFlight == Len(controlOut) <= 1

=============================================================================
